---- MODULE Spec2Model ----
(***************************************************************************)
(* A model of simple-http-server: the rule store (package config), the     *)
(* proxy router and its instance cache (package proxy), the dispatcher of  *)
(* main.go, the administrative API (package admin), and the change hub and *)
(* file watcher (package fileserver).                                      *)
(*                                                                         *)
(* Strings that the code inspects character by character (request paths,   *)
(* path prefixes) are sequences of one-character strings; strings that the *)
(* code only compares or passes on (identifiers, target URLs, messages)    *)
(* are TLA+ strings.                                                       *)
(***************************************************************************)
EXTENDS Integers, Sequences, FiniteSets, TLC

VARIABLES
    rules,          \* config.Config.settings.ProxyRules
    proxies,        \* proxy.ProxyManager.proxies: rule ID -> instance
    req,            \* requests in flight on the shared listener
    pendingRefresh, \* admin handlers between their store mutation and RefreshProxies
    nextUUID,       \* how many identifiers uuid.New has handed out
    mon,            \* observer: the first request after a quiet mutation and refresh
    portsPc,        \* main.go: whether startPortBasedProxies has run
    spawned,        \* rules whose listener goroutine has not yet called ListenAndServe
    listeners,      \* port -> the rule its listener's handler captured
    portResp,       \* the last answer of a port listener
    cfgMu,          \* config.Config.mu
    sp,             \* calls of the store's methods, step by step
    hist,           \* observer: the store after each completed mutation
    readLo,         \* observer: per call, the mutations completed when it began
    hubMu,          \* fileserver.FileServer.mu
    clients,        \* FileServer.clients, a channel named by its connection
    queue,          \* what each clientChan holds
    conn,           \* the requests for a stream URL, step by step
    bc,             \* the calls of BroadcastChange, step by step
    castLog,        \* observer: the sends since a BroadcastChange last began or ended
    cycles,         \* observer: a handler that registered has returned
    wpc,            \* where the loop of watchFiles stands
    debounceTimer,  \* watchFiles: the timer last made, 0 for nil
    armed,          \* the timers that will still fire
    fired,          \* the timers whose function has started and not yet broadcast
    closures,       \* the event each timer's function has captured
    issued,         \* observer: the messages handed to BroadcastChange
    late,           \* observer: an event came after the timer before it had fired
    adminOut,       \* the status of the admin handler's last response
    adminPend,      \* the admin operations between their mutation and their refresh
    strm,           \* HandleSSE per connection, statement by statement
    serial,         \* how many calls of BroadcastChange have begun
    enq,            \* observer: per connection, what was sent on its channel
    wrote,          \* observer: per connection, the data messages written
    tree,           \* what lies under the serving directory when watchFiles starts
    walkAt,         \* addDirRecursive at startup: the next name of the walk
    watchSet,       \* the directories the fsnotify watcher watches
    pmMu,           \* proxy.ProxyManager.mu: the call that holds it, 0 if none
    goc,            \* calls of getOrCreateProxy, statement by statement
    pmProxies,      \* proxy.ProxyManager.proxies: rule ID -> the instance's address
    allocs,         \* how many instances NewSingleHostReverseProxy has made
    ledger,         \* observer: instances made and returned since the last refresh
    heap,           \* the backing arrays of the rule slices
    cfgSlice,       \* config.Config.settings.ProxyRules as a slice header
    snaps,          \* the lists GetProxyRules has returned, as slice headers
    held,           \* observer: what each returned list is to hold
    fileServerDir,  \* config.Config.settings.FileServerDir
    servedFrom,     \* the directory the last file request was served from
    watchRoot       \* the directory watchFiles has read as the root of its walk

coreVars == <<rules, proxies, req, pendingRefresh, nextUUID>>
portVars == <<portsPc, spawned, listeners, portResp>>

lockVars == <<cfgMu, sp, hist, readLo>>
hubVars == <<hubMu, clients, queue, conn, bc, castLog, cycles>>
watchVars == <<wpc, debounceTimer, armed, fired, closures, issued, late>>
adminVars == <<adminOut, adminPend>>
streamVars == <<strm, serial, enq, wrote>>
bootVars == <<tree, walkAt, watchSet, watchRoot>>
pmVars == <<pmMu, goc, pmProxies, allocs, ledger>>
heapVars == <<heap, cfgSlice, snaps, held>>
dirVars == <<fileServerDir, servedFrom>>

vars == <<rules, proxies, req, pendingRefresh, nextUUID, mon,
          portsPc, spawned, listeners, portResp, cfgMu, sp, hist, readLo,
          hubMu, clients, queue, conn, bc, castLog, cycles,
          wpc, debounceTimer, armed, fired, closures, issued, late,
          adminOut, adminPend, strm, serial, enq, wrote,
          tree, walkAt, watchSet, pmMu, goc, pmProxies, allocs, ledger,
          heap, cfgSlice, snaps, held, fileServerDir, servedFrom, watchRoot>>

----------------------------------------------------------------------------
(* Bounds *)

MaxRules == 2       \* longest rule list explored
NReq == 1           \* concurrent requests on the shared listener
MaxAdmin == 1       \* admin handlers that have mutated and not yet refreshed
MaxUUID == 1        \* identifiers uuid.New hands out
NCalls == 2         \* concurrent calls of the store's methods
MaxMut == 2         \* mutations of the store in one behaviour
NConn == 2          \* concurrent requests for a stream URL
NCast == 1          \* concurrent calls of BroadcastChange
MaxEvents == 3      \* file system events in one behaviour
NStream == 1        \* connections whose writes are followed one by one
MaxSerial == 3      \* calls of BroadcastChange whose messages the logs follow
MaxStored == 3      \* rules in the list a method of Config starts from
NGet == 2           \* concurrent calls of getOrCreateProxy
MaxInst == 3        \* proxy instances made between two refreshes
MaxHeap == 3        \* backing arrays allocated in one behaviour
MaxSnaps == 1       \* lists returned by GetProxyRules in one behaviour

----------------------------------------------------------------------------
(* Strings *)

\* strings.HasPrefix(s, prefix)
HasPrefix(s, prefix) ==
    /\ Len(prefix) <= Len(s)
    /\ SubSeq(s, 1, Len(prefix)) = prefix

\* strings.TrimPrefix(s, prefix)
TrimPrefix(s, prefix) ==
    IF HasPrefix(s, prefix) THEN SubSeq(s, Len(prefix) + 1, Len(s)) ELSE s

Empty == << >>
Root == <<"/">>
PApi == <<"/", "a", "p", "i">>
PApiV2 == <<"/", "a", "p", "i", "/", "v", "2">>
PathApi == PApi
PathApiUsers == <<"/", "a", "p", "i", "/", "u", "s", "e", "r", "s">>
PathApiV2X == <<"/", "a", "p", "i", "/", "v", "2", "/", "x">>
PathOther == <<"/", "o", "t", "h", "e", "r">>

----------------------------------------------------------------------------
(* config.ProxyRule *)

Rule(id, prefix, port, target, strip) ==
    [ID |-> id, PathPrefix |-> prefix, Port |-> port,
     TargetURL |-> target, StripPrefix |-> strip]

\* The zero value of config.ProxyRule
ZeroRule == Rule("", Empty, 0, "", FALSE)

\* All sequences over S of length at most n
SeqsUpTo(S, n) == UNION {[1..k -> S] : k \in 0..n}

\* The empty map
NoProxies == [id \in {} |-> [target |-> ""]]

----------------------------------------------------------------------------
(* Input universes *)

TargetX == "http://x"
TargetY == "http://y"

\* url.Parse accepts the targets of the universes below; BadURL stands for
\* a string it rejects (an unterminated IPv6 literal).
BadURL == "http://[::1"
ParseOK(target) == target # BadURL

\* Rule lists of the dispatch specification: path rules with overlapping
\* prefixes and port-only rules, as the import operation can install them,
\* and path rules whose target does not parse.
DispatchRules ==
    {Rule(id, prefix, IF prefix = Empty THEN 9000 ELSE 0, target, strip) :
        id \in {"a", "b"}, prefix \in {Empty, PApi, PApiV2},
        target \in {TargetX}, strip \in BOOLEAN}
    \cup {Rule(id, PApiV2, 0, BadURL, FALSE) : id \in {"a", "b"}}

DispatchPaths == {PathApi, PathApiUsers, PathApiV2X, PathOther}

----------------------------------------------------------------------------
(* main.go: the route table *)

PAdmin == <<"/", "a", "d", "m", "i", "n">>
PAdminSlash == PAdmin \o <<"/">>
PAdminApi == PAdminSlash \o <<"a", "p", "i">>
PAdminApiSlash == PAdminApi \o <<"/">>
PEvents == <<"/", "e", "v", "e", "n", "t", "s">>

\* http.ServeMux with the four patterns main registers: the longest
\* matching pattern wins, a pattern ending in "/" matches its subtree, any
\* other pattern matches that path only, and a path whose pattern is
\* registered with a trailing slash is redirected to it.
ServeMux(path) ==
    IF HasPrefix(path, PAdminApiSlash) THEN "adminAPI"
    ELSE IF path = PAdminApi THEN "redirect"
    ELSE IF HasPrefix(path, PAdminSlash) THEN "adminStatic"
    ELSE IF path = PAdmin THEN "redirect"
    ELSE IF path = PEvents THEN "sse"
    ELSE "root"

----------------------------------------------------------------------------
(* Requests on the shared listener *)

IdleReq == [pc |-> "idle", path |-> Empty, sel |-> ZeroRule,
            out |-> "none", target |-> "", fwd |-> Empty, up |-> Empty]

\* main.go, the "/" handler: the loop over the snapshot of the rules
RootMatches(snapshot, path) ==
    \E k \in 1..Len(snapshot) :
        /\ snapshot[k].PathPrefix # Empty
        /\ HasPrefix(path, snapshot[k].PathPrefix)

\* main.go, the "/" handler: proxy when a rule matches, else serve files
RootHandler(i, path) ==
    /\ req[i].pc = "idle"
    /\ ServeMux(path) = "root"
    /\ LET snapshot == rules
       IN  req' = [req EXCEPT ![i] =
                IF RootMatches(snapshot, path)
                THEN [IdleReq EXCEPT !.pc = "pm", !.path = path]
                ELSE [IdleReq EXCEPT !.pc = "done", !.path = path,
                                     !.out = "file"]]
    /\ UNCHANGED <<rules, proxies, pendingRefresh, nextUUID>>

\* main.go, the route table: a request whose path the mux gives to another
\* pattern than "/" is answered by that pattern's handler (the admin API,
\* the admin panel's files, the event stream, or the mux's own redirect)
MuxHandler(i, path) ==
    /\ req[i].pc = "idle"
    /\ ServeMux(path) # "root"
    /\ req' = [req EXCEPT ![i] =
            [IdleReq EXCEPT !.pc = "done", !.path = path,
                            !.out = ServeMux(path)]]
    /\ UNCHANGED <<rules, proxies, pendingRefresh, nextUUID>>

\* ProxyManager.ServeHTTP: the condition of the matching loop
PMMatches(rule, path) == HasPrefix(path, rule.PathPrefix)

\* ProxyManager.ServeHTTP: the index of the rule the loop stops at, 0 if none
PMFirstMatch(snapshot, path) ==
    IF \E k \in 1..Len(snapshot) : PMMatches(snapshot[k], path)
    THEN CHOOSE k \in 1..Len(snapshot) :
            /\ PMMatches(snapshot[k], path)
            /\ \A j \in 1..(k - 1) : ~PMMatches(snapshot[j], path)
    ELSE 0

\* ProxyManager.ServeHTTP up to the call of getOrCreateProxy: a second
\* snapshot of the rules, and the answer 404 when the loop finds no rule
PMServeHTTP(i) ==
    /\ req[i].pc = "pm"
    /\ LET snapshot == rules
           k == PMFirstMatch(snapshot, req[i].path)
       IN  req' = [req EXCEPT ![i] =
                IF k = 0
                THEN [@ EXCEPT !.pc = "done", !.out = "404"]
                ELSE [@ EXCEPT !.pc = "matched", !.sel = snapshot[k]]]
    /\ UNCHANGED <<rules, proxies, pendingRefresh, nextUUID>>

\* getOrCreateProxy gone wrong: the nil of a failed construction is cached
getOrCreateProxyCachesNil(rule, cache) ==
    IF rule.ID \in DOMAIN cache
    THEN [ok |-> TRUE, proxy |-> cache[rule.ID], cache |-> cache]
    ELSE LET proxy == [target |-> IF ParseOK(rule.TargetURL)
                                  THEN rule.TargetURL ELSE ""]
         IN  [ok |-> ParseOK(rule.TargetURL), proxy |-> proxy,
              cache |-> [id \in DOMAIN cache \cup {rule.ID} |->
                            IF id = rule.ID THEN proxy ELSE cache[id]]]

\* ProxyManager.getOrCreateProxy, under pm.mu: the cached instance of the
\* rule's ID if there is one; nil, and nothing cached, when the target does
\* not parse; else a new instance bound to the rule's target, cached.
getOrCreateProxy(rule, cache) ==
    IF rule.ID \in DOMAIN cache
    THEN [ok |-> TRUE, proxy |-> cache[rule.ID], cache |-> cache]
    ELSE IF ~ParseOK(rule.TargetURL)
    THEN [ok |-> FALSE, proxy |-> [target |-> ""], cache |-> cache]
    ELSE LET proxy == [target |-> rule.TargetURL]
         IN  [ok |-> TRUE, proxy |-> proxy,
              cache |-> [id \in DOMAIN cache \cup {rule.ID} |->
                            IF id = rule.ID THEN proxy ELSE cache[id]]]

\* Targets with a path of their own
TargetBase == "http://x/base"
TargetSlash == "http://y/v1/"

\* url.Parse(target).Path for the targets of the universes
URLPath(target) ==
    CASE target = TargetBase -> <<"/", "b", "a", "s", "e">>
      [] target = TargetSlash -> <<"/", "v", "1", "/">>
      [] OTHER -> Empty

\* strings.HasSuffix(s, "/")
EndsInSlash(s) == s # Empty /\ s[Len(s)] = "/"

\* Director gone wrong: the two paths are put together as they are
DirectorPlain(target, path) == URLPath(target) \o path

\* The director of httputil.NewSingleHostReverseProxy, which the instance's
\* own director calls first: the target's path and the request's path are
\* joined by exactly one slash
Director(target, path) ==
    LET a == URLPath(target)
        aslash == EndsInSlash(a)
        bslash == HasPrefix(path, Root)
    IN  IF aslash /\ bslash THEN a \o Tail(path)
        ELSE IF ~aslash /\ ~bslash THEN a \o Root \o path
        ELSE a \o path

\* ForwardPath gone wrong: the empty path is not replaced by "/"
ForwardPathNoDefault(rule, path) ==
    IF rule.StripPrefix THEN TrimPrefix(path, rule.PathPrefix) ELSE path

\* ProxyManager.ServeHTTP: the path sent upstream
ForwardPath(rule, path) ==
    IF rule.StripPrefix
    THEN LET trimmed == TrimPrefix(path, rule.PathPrefix)
         IN  IF trimmed = Empty THEN Root ELSE trimmed
    ELSE path

\* ProxyManager.ServeHTTP from getOrCreateProxy on: 500 on nil, else the
\* request is forwarded by the instance, with the path rewritten
PMForward(i) ==
    /\ req[i].pc = "matched"
    /\ LET got == getOrCreateProxy(req[i].sel, proxies)
       IN  /\ proxies' = got.cache
           /\ req' = [req EXCEPT ![i] =
                IF got.ok
                THEN [@ EXCEPT !.pc = "done", !.out = "forwarded",
                               !.target = got.proxy.target,
                               !.fwd = ForwardPath(req[i].sel, req[i].path),
                               !.up = Director(got.proxy.target,
                                        ForwardPath(req[i].sel, req[i].path))]
                ELSE [@ EXCEPT !.pc = "done", !.out = "500"]]
    /\ UNCHANGED <<rules, pendingRefresh, nextUUID>>

\* The handler returns: the response is complete
Finish(i) ==
    /\ req[i].pc = "done"
    /\ req' = [req EXCEPT ![i] = IdleReq]
    /\ UNCHANGED <<rules, proxies, pendingRefresh, nextUUID>>

----------------------------------------------------------------------------
(* Dispatch on a fixed rule list *)

InitProxyCommon ==
    /\ proxies = NoProxies
    /\ req = [i \in 1..NReq |-> IdleReq]
    /\ pendingRefresh = 0
    /\ nextUUID = 0

NoListeners == [port \in {} |-> ZeroRule]
NoPortResp == [port |-> 0, path |-> Empty, out |-> "none", target |-> "",
               fwd |-> Empty]

IdleCall == [pc |-> "idle", op |-> "none", id |-> "", rule |-> ZeroRule,
             list |-> << >>, k |-> 0, n |-> 0, buf |-> << >>]

\* make(chan string, 10) in HandleSSE
ChanCap == 10

\* HandleSSE not running for a connection: its context is not done and it
\* has written nothing
IdleStream == [pc |-> "idle", done |-> FALSE, first |-> "none", werr |-> FALSE]

IdleConn == [pc |-> "idle", path |-> Empty, handler |-> "none", out |-> "none"]
IdleCast == [pc |-> "idle", msg |-> "", todo |-> {}]
NoLog == [sent |-> FALSE, skipped |-> FALSE]

\* fsnotify.Event
Event(name, op, isDir) == [Name |-> name, Op |-> op, IsDir |-> isDir]

NoEvent == Event(<< >>, {}, FALSE)

\* A call of getOrCreateProxy; the address 0 is nil
IdleGoc == [pc |-> "idle", rule |-> ZeroRule, proxy |-> 0]

\* make(map[string]*httputil.ReverseProxy)
NoInstances == [id \in {} |-> 0]

NoLedger == [built |-> {}, given |-> {}]

\* NewProxyManager
InitPM ==
    /\ pmMu = 0
    /\ goc = [p \in 1..NGet |-> IdleGoc]
    /\ pmProxies = NoInstances
    /\ allocs = 0
    /\ ledger = NoLedger

\* globalConfig: ProxyRules is []ProxyRule{}, a slice without an array
NoSlice == [arr |-> 0, len |-> 0]

\* The working directory the process starts in
ServingDir == <<"srv">>

\* main has called cfg.SetFileServerDir(cwd); no file has been served
InitDir ==
    /\ fileServerDir = ServingDir
    /\ servedFrom = << >>

InitHeap ==
    /\ heap = << >>
    /\ cfgSlice = NoSlice
    /\ snaps = << >>
    /\ held = << >>

InitStreams ==
    /\ strm = [i \in 1..NStream |-> IdleStream]
    /\ serial = 0
    /\ enq = [i \in 1..NStream |-> << >>]
    /\ wrote = [i \in 1..NStream |-> << >>]
    /\ adminOut = "none"
    /\ adminPend = << >>

InitWatchRest ==
    /\ InitStreams
    /\ InitPM
    /\ InitHeap
    /\ InitDir
    /\ debounceTimer = 0
    /\ armed = {}
    /\ fired = {}
    /\ closures = << >>
    /\ issued = << >>
    /\ late = FALSE

\* The watcher in its loop: where the specifications of the loop begin
InitWatch ==
    /\ InitWatchRest
    /\ wpc = [pc |-> "select", event |-> NoEvent]
    /\ tree = << >>
    /\ walkAt = 1
    /\ watchSet = {}
    /\ watchRoot = ServingDir

InitHubOnly ==
    /\ hubMu = [writer |-> 0, readers |-> {}]
    /\ clients = {}
    /\ queue = [i \in 1..NConn |-> << >>]
    /\ conn = [i \in 1..NConn |-> IdleConn]
    /\ bc = [b \in 1..NCast |-> IdleCast]
    /\ castLog = NoLog
    /\ cycles = FALSE

InitHub ==
    /\ InitWatch
    /\ InitHubOnly

InitLockOnly ==
    /\ cfgMu = [writer |-> 0, readers |-> {}]
    /\ sp = [p \in 1..NCalls |-> IdleCall]
    /\ hist = <<rules>>
    /\ readLo = [p \in 1..NCalls |-> 0]

InitLock ==
    /\ InitLockOnly
    /\ InitHub

InitPortsOnly ==
    /\ portsPc = "pending"
    /\ spawned = {}
    /\ listeners = NoListeners
    /\ portResp = NoPortResp

InitPorts ==
    /\ InitPortsOnly
    /\ InitLock

MonOff == [phase |-> "off", kind |-> "none", req |-> 0]

InitDispatch ==
    /\ rules \in SeqsUpTo(DispatchRules, MaxRules)
    /\ InitProxyCommon
    /\ InitPorts
    /\ mon = MonOff

NextDispatch ==
    \/ \E i \in 1..NReq, path \in DispatchPaths :
            RootHandler(i, path) /\ UNCHANGED <<mon, portVars, lockVars, hubVars, watchVars, adminVars, streamVars, bootVars, pmVars, heapVars, dirVars>>
    \/ \E i \in 1..NReq : PMServeHTTP(i) /\ UNCHANGED <<mon, portVars, lockVars, hubVars, watchVars, adminVars, streamVars, bootVars, pmVars, heapVars, dirVars>>
    \/ \E i \in 1..NReq : PMForward(i) /\ UNCHANGED <<mon, portVars, lockVars, hubVars, watchVars, adminVars, streamVars, bootVars, pmVars, heapVars, dirVars>>
    \/ \E i \in 1..NReq : Finish(i) /\ UNCHANGED <<mon, portVars, lockVars, hubVars, watchVars, adminVars, streamVars, bootVars, pmVars, heapVars, dirVars>>

SpecDispatch == InitDispatch /\ [][NextDispatch]_vars

\* Everything the shared listener receives: one rule whose prefix is "/",
\* one of the server's own paths or a path of the site, and requests for
\* the server's own paths and for the site
PathAdminApiRules == PAdminApiSlash \o <<"r">>
PathAdminIndex == PAdminSlash \o <<"i">>

MuxRules ==
    {Rule("a", prefix, 0, target, strip) :
        prefix \in {Root, PAdminSlash, PAdminApi, PEvents, PApi},
        target \in {TargetX, TargetBase}, strip \in BOOLEAN}

MuxPaths == {PathAdminApiRules, PathAdminIndex, PAdmin, PAdminApi, PEvents,
             PathApi, PathApiUsers, PathOther}

InitMux ==
    /\ \E rule \in MuxRules : rules = <<rule>>
    /\ InitProxyCommon
    /\ InitPorts
    /\ mon = MonOff

NextMux ==
    \/ \E i \in 1..NReq, path \in MuxPaths :
            MuxHandler(i, path) /\ UNCHANGED <<mon, portVars, lockVars, hubVars, watchVars, adminVars, streamVars, bootVars, pmVars, heapVars, dirVars>>
    \/ \E i \in 1..NReq, path \in MuxPaths :
            RootHandler(i, path) /\ UNCHANGED <<mon, portVars, lockVars, hubVars, watchVars, adminVars, streamVars, bootVars, pmVars, heapVars, dirVars>>
    \/ \E i \in 1..NReq : PMServeHTTP(i) /\ UNCHANGED <<mon, portVars, lockVars, hubVars, watchVars, adminVars, streamVars, bootVars, pmVars, heapVars, dirVars>>
    \/ \E i \in 1..NReq : PMForward(i) /\ UNCHANGED <<mon, portVars, lockVars, hubVars, watchVars, adminVars, streamVars, bootVars, pmVars, heapVars, dirVars>>
    \/ \E i \in 1..NReq : Finish(i) /\ UNCHANGED <<mon, portVars, lockVars, hubVars, watchVars, adminVars, streamVars, bootVars, pmVars, heapVars, dirVars>>

SpecMux == InitMux /\ [][NextMux]_vars

\* Dispatch with one rule of each shape of prefix and target, on paths at,
\* under and beside the prefix
PApiSlash == <<"/", "a", "p", "i", "/">>
PathApiary == <<"/", "a", "p", "i", "a", "r", "y">>

StripRules ==
    {Rule("a", prefix, 0, target, strip) :
        prefix \in {PApi, PApiSlash, Root},
        target \in {TargetX, TargetBase, TargetSlash}, strip \in BOOLEAN}

StripPaths == {PathApi, PApiSlash, PathApiUsers, PathApiary, PathOther}

InitStrip ==
    /\ \E rule \in StripRules : rules = <<rule>>
    /\ InitProxyCommon
    /\ InitPorts
    /\ mon = MonOff

NextStrip ==
    \/ \E i \in 1..NReq, path \in StripPaths :
            RootHandler(i, path) /\ UNCHANGED <<mon, portVars, lockVars, hubVars, watchVars, adminVars, streamVars, bootVars, pmVars, heapVars, dirVars>>
    \/ \E i \in 1..NReq : PMServeHTTP(i) /\ UNCHANGED <<mon, portVars, lockVars, hubVars, watchVars, adminVars, streamVars, bootVars, pmVars, heapVars, dirVars>>
    \/ \E i \in 1..NReq : PMForward(i) /\ UNCHANGED <<mon, portVars, lockVars, hubVars, watchVars, adminVars, streamVars, bootVars, pmVars, heapVars, dirVars>>
    \/ \E i \in 1..NReq : Finish(i) /\ UNCHANGED <<mon, portVars, lockVars, hubVars, watchVars, adminVars, streamVars, bootVars, pmVars, heapVars, dirVars>>

SpecStrip == InitStrip /\ [][NextStrip]_vars

----------------------------------------------------------------------------
(* package config: the rule store.  Each operation runs under c.mu from    *)
(* beginning to end; the specification SpecStore below models the lock.    *)

\* Config.AddProxyRule
AddProxyRule(list, rule) == Append(list, rule)

\* IndexOfID gone wrong: the loop stops at the first rule whatever its ID
IndexOfIDAny(list, id) == IF list # << >> THEN 1 ELSE 0

\* The first index whose rule has the ID, 0 if none
IndexOfID(list, id) ==
    IF \E k \in 1..Len(list) : list[k].ID = id
    THEN CHOOSE k \in 1..Len(list) :
            list[k].ID = id /\ \A j \in 1..(k - 1) : list[j].ID # id
    ELSE 0

\* Config.UpdateProxyRule
UpdateProxyRule(list, id, rule) ==
    LET k == IndexOfID(list, id)
    IN  IF k = 0
        THEN [found |-> FALSE, list |-> list]
        ELSE [found |-> TRUE,
              list |-> [list EXCEPT ![k] = [rule EXCEPT !.ID = id]]]

\* Config.DeleteProxyRule
DeleteProxyRule(list, id) ==
    LET k == IndexOfID(list, id)
    IN  IF k = 0
        THEN [found |-> FALSE, list |-> list]
        ELSE [found |-> TRUE,
              list |-> SubSeq(list, 1, k - 1) \o SubSeq(list, k + 1, Len(list))]

----------------------------------------------------------------------------
(* package admin *)

\* uuid.New().String(): an identifier no earlier call returned
NewUUID(n) == "uuid-" \o ToString(n)

\* addProxy, updateProxy: the two validation tests
Valid(rule) ==
    /\ ~(rule.PathPrefix = Empty /\ rule.Port = 0)
    /\ rule.TargetURL # ""

\* addProxy, updateProxy: a path prefix is made to begin with "/"
Normalize(rule) ==
    IF rule.PathPrefix # Empty /\ ~HasPrefix(rule.PathPrefix, Root)
    THEN [rule EXCEPT !.PathPrefix = Root \o rule.PathPrefix]
    ELSE rule

\* Handler.addProxy up to the call of RefreshProxies: the decoded body gets
\* an identifier if it has none, is validated (400, nothing changes) and
\* normalised, and is appended to the store
addProxy(body) ==
    /\ pendingRefresh < MaxAdmin
    /\ Len(rules) < MaxRules
    /\ body.ID = "" => nextUUID < MaxUUID
    /\ LET fresh == body.ID = ""
           rule == IF fresh THEN [body EXCEPT !.ID = NewUUID(nextUUID + 1)]
                   ELSE body
       IN  /\ nextUUID' = IF fresh THEN nextUUID + 1 ELSE nextUUID
           /\ IF Valid(rule)
              THEN /\ rules' = AddProxyRule(rules, Normalize(rule))
                   /\ pendingRefresh' = pendingRefresh + 1
                   /\ adminPend' = Append(adminPend, "add")
                   /\ UNCHANGED adminOut
              ELSE /\ adminOut' = "400"
                   /\ UNCHANGED <<rules, pendingRefresh, adminPend>>
    /\ UNCHANGED <<proxies, req>>

\* Handler.updateProxy up to the call of RefreshProxies: 400 on an invalid
\* body, 404 when the store has no rule of that ID
updateProxy(id, body) ==
    /\ pendingRefresh < MaxAdmin
    /\ LET res == UpdateProxyRule(rules, id, Normalize(body))
       IN  IF Valid(body) /\ res.found
           THEN /\ rules' = res.list
                /\ pendingRefresh' = pendingRefresh + 1
                /\ adminPend' = Append(adminPend, "update")
                /\ UNCHANGED adminOut
           ELSE /\ adminOut' = IF Valid(body) THEN "404" ELSE "400"
                /\ UNCHANGED <<rules, pendingRefresh, adminPend>>
    /\ UNCHANGED <<proxies, req, nextUUID>>

\* Handler.deleteProxy up to the call of RefreshProxies
deleteProxy(id) ==
    /\ pendingRefresh < MaxAdmin
    /\ LET res == DeleteProxyRule(rules, id)
       IN  IF res.found
           THEN /\ rules' = res.list
                /\ pendingRefresh' = pendingRefresh + 1
                /\ adminPend' = Append(adminPend, "delete")
                /\ UNCHANGED adminOut
           ELSE /\ adminOut' = "404"
                /\ UNCHANGED <<rules, pendingRefresh, adminPend>>
    /\ UNCHANGED <<proxies, req, nextUUID>>

\* Handler.importSettings up to the call of RefreshProxies: the decoded
\* rule list replaces the store's, unvalidated
importSettings(list) ==
    /\ pendingRefresh < MaxAdmin
    /\ rules' = list
    /\ pendingRefresh' = pendingRefresh + 1
    /\ adminPend' = Append(adminPend, "import")
    /\ UNCHANGED <<adminOut, proxies, req, nextUUID>>

\* Refreshed gone wrong: the cache is kept
RefreshedKeeps(cache) == cache

\* ProxyManager.RefreshProxies: the cache after the call
Refreshed(cache) == NoProxies

\* The status an admin handler writes when it has succeeded
SuccessStatus(op) ==
    CASE op = "add" -> "201"
      [] op = "delete" -> "204"
      [] OTHER -> "200"

\* RefreshProxies gone wrong: the handler answers without the call
RefreshProxiesSkipped ==
    /\ pendingRefresh > 0
    /\ pendingRefresh' = pendingRefresh - 1
    /\ \E k \in 1..Len(adminPend) :
            /\ adminOut' = SuccessStatus(adminPend[k])
            /\ adminPend' = SubSeq(adminPend, 1, k - 1) \o
                                SubSeq(adminPend, k + 1, Len(adminPend))
    /\ UNCHANGED <<rules, proxies, req, nextUUID>>

\* The call of RefreshProxies that ends a successful admin operation, and
\* the response the handler then writes
RefreshProxies ==
    /\ pendingRefresh > 0
    /\ proxies' = Refreshed(proxies)
    /\ pendingRefresh' = pendingRefresh - 1
    /\ \E k \in 1..Len(adminPend) :
            /\ adminOut' = SuccessStatus(adminPend[k])
            /\ adminPend' = SubSeq(adminPend, 1, k - 1) \o
                                SubSeq(adminPend, k + 1, Len(adminPend))
    /\ UNCHANGED <<rules, req, nextUUID>>

----------------------------------------------------------------------------
(* The shared endpoint under administration *)

PApiBare == <<"a", "p", "i">>

\* Bodies of add and update requests: rule a with a prefix lacking its "/",
\* rule a with the other target and the strip flag, and a body failing each
\* validation test
AdminBodies ==
    {Rule("a", PApiBare, 0, TargetX, FALSE),
     Rule("a", PApi, 0, TargetY, TRUE),
     Rule("a", Empty, 0, TargetX, FALSE),
     Rule("a", PApi, 0, "", FALSE)}

\* Identifiers in the URLs of update and delete requests
AdminIDs == {"a", "b"}

\* Rule lists of imported settings: none, and a changed rule a
ImportLists ==
    {<< >>,
     <<Rule("a", PApi, 0, TargetY, FALSE)>>}

ProxyPaths == {PathApiUsers, PathOther}

AllIdle == \A i \in 1..NReq : req[i].pc = "idle"

\* The observer at a store mutation: it starts watching if the system is
\* quiet (no request in flight, no other admin operation under way)
MonMutate(kind) ==
    mon' = IF pendingRefresh' = pendingRefresh THEN mon
           ELSE IF AllIdle /\ pendingRefresh = 0
           THEN [phase |-> "mutated", kind |-> kind, req |-> 0]
           ELSE MonOff

\* The observer at RefreshProxies
MonRefresh ==
    mon' = IF mon.phase = "mutated" /\ AllIdle
           THEN [mon EXCEPT !.phase = "armed"]
           ELSE MonOff

\* The observer at the start of request i: the first request after the
\* refresh is the one it follows, alone
MonStart(i) ==
    mon' = CASE mon.phase = "armed" -> [mon EXCEPT !.phase = "running", !.req = i]
             [] mon.phase = "mutated" -> mon
             [] OTHER -> MonOff

\* The observer when request i returns
MonFinish(i) ==
    mon' = IF mon.phase = "running" /\ mon.req = i THEN MonOff ELSE mon

InitProxy ==
    /\ rules = << >>
    /\ InitProxyCommon
    /\ InitPorts
    /\ mon = MonOff

NextProxy ==
    \/ \E body \in AdminBodies :
            addProxy(body) /\ MonMutate("add") /\ UNCHANGED <<portVars, lockVars, hubVars, watchVars, streamVars, bootVars, pmVars, heapVars, dirVars>>
    \/ \E id \in AdminIDs, body \in AdminBodies :
            updateProxy(id, body) /\ MonMutate("update") /\ UNCHANGED <<portVars, lockVars, hubVars, watchVars, streamVars, bootVars, pmVars, heapVars, dirVars>>
    \/ \E id \in AdminIDs :
            deleteProxy(id) /\ MonMutate("delete") /\ UNCHANGED <<portVars, lockVars, hubVars, watchVars, streamVars, bootVars, pmVars, heapVars, dirVars>>
    \/ \E list \in ImportLists :
            importSettings(list) /\ MonMutate("import") /\ UNCHANGED <<portVars, lockVars, hubVars, watchVars, streamVars, bootVars, pmVars, heapVars, dirVars>>
    \/ RefreshProxies /\ MonRefresh /\ UNCHANGED <<portVars, lockVars, hubVars, watchVars, streamVars, bootVars, pmVars, heapVars, dirVars>>
    \/ \E i \in 1..NReq, path \in ProxyPaths :
            RootHandler(i, path) /\ MonStart(i) /\ UNCHANGED <<portVars, lockVars, hubVars, watchVars, adminVars, streamVars, bootVars, pmVars, heapVars, dirVars>>
    \/ \E i \in 1..NReq : PMServeHTTP(i) /\ UNCHANGED <<mon, portVars, lockVars, hubVars, watchVars, adminVars, streamVars, bootVars, pmVars, heapVars, dirVars>>
    \/ \E i \in 1..NReq : PMForward(i) /\ UNCHANGED <<mon, portVars, lockVars, hubVars, watchVars, adminVars, streamVars, bootVars, pmVars, heapVars, dirVars>>
    \/ \E i \in 1..NReq : Finish(i) /\ MonFinish(i) /\ UNCHANGED <<portVars, lockVars, hubVars, watchVars, adminVars, streamVars, bootVars, pmVars, heapVars, dirVars>>

SpecProxy == InitProxy /\ [][NextProxy]_vars

\* The administrative API against a single request at the shared endpoint:
\* the first request fills the cache, the others stay idle
NextAdmin ==
    \/ \E body \in AdminBodies :
            addProxy(body) /\ MonMutate("add") /\ UNCHANGED <<portVars, lockVars, hubVars, watchVars, streamVars, bootVars, pmVars, heapVars, dirVars>>
    \/ \E id \in AdminIDs, body \in AdminBodies :
            updateProxy(id, body) /\ MonMutate("update") /\ UNCHANGED <<portVars, lockVars, hubVars, watchVars, streamVars, bootVars, pmVars, heapVars, dirVars>>
    \/ \E id \in AdminIDs :
            deleteProxy(id) /\ MonMutate("delete") /\ UNCHANGED <<portVars, lockVars, hubVars, watchVars, streamVars, bootVars, pmVars, heapVars, dirVars>>
    \/ \E list \in ImportLists :
            importSettings(list) /\ MonMutate("import") /\ UNCHANGED <<portVars, lockVars, hubVars, watchVars, streamVars, bootVars, pmVars, heapVars, dirVars>>
    \/ RefreshProxies /\ MonRefresh /\ UNCHANGED <<portVars, lockVars, hubVars, watchVars, streamVars, bootVars, pmVars, heapVars, dirVars>>
    \/ \E i \in {1}, path \in ProxyPaths :
            RootHandler(i, path) /\ MonStart(i) /\ UNCHANGED <<portVars, lockVars, hubVars, watchVars, adminVars, streamVars, bootVars, pmVars, heapVars, dirVars>>
    \/ \E i \in {1} : PMServeHTTP(i) /\ UNCHANGED <<mon, portVars, lockVars, hubVars, watchVars, adminVars, streamVars, bootVars, pmVars, heapVars, dirVars>>
    \/ \E i \in {1} : PMForward(i) /\ UNCHANGED <<mon, portVars, lockVars, hubVars, watchVars, adminVars, streamVars, bootVars, pmVars, heapVars, dirVars>>
    \/ \E i \in {1} : Finish(i) /\ MonFinish(i) /\ UNCHANGED <<portVars, lockVars, hubVars, watchVars, adminVars, streamVars, bootVars, pmVars, heapVars, dirVars>>

SpecAdmin == InitProxy /\ [][NextAdmin]_vars

\* The administrative API alone, with the settings documents an import can
\* carry: json.Unmarshal takes any rule list, a rule without fields included
AnyImportLists ==
    ImportLists
    \cup {<<Rule("", PApiBare, 0, "", FALSE)>>,
          <<Rule("a", PApi, 0, TargetX, FALSE), Rule("b", Empty, 0, TargetY, FALSE)>>}

NextSettings ==
    \/ \E body \in AdminBodies :
            addProxy(body) /\ UNCHANGED <<mon, portVars, lockVars, hubVars, watchVars, streamVars, bootVars, pmVars, heapVars, dirVars>>
    \/ \E id \in AdminIDs, body \in AdminBodies :
            updateProxy(id, body) /\ UNCHANGED <<mon, portVars, lockVars, hubVars, watchVars, streamVars, bootVars, pmVars, heapVars, dirVars>>
    \/ \E id \in AdminIDs :
            deleteProxy(id) /\ UNCHANGED <<mon, portVars, lockVars, hubVars, watchVars, streamVars, bootVars, pmVars, heapVars, dirVars>>
    \/ \E list \in AnyImportLists :
            importSettings(list) /\ UNCHANGED <<mon, portVars, lockVars, hubVars, watchVars, streamVars, bootVars, pmVars, heapVars, dirVars>>
    \/ RefreshProxies /\ UNCHANGED <<mon, portVars, lockVars, hubVars, watchVars, streamVars, bootVars, pmVars, heapVars, dirVars>>

SpecSettings == InitProxy /\ [][NextSettings]_vars

----------------------------------------------------------------------------
(* main.go: port listeners *)

\* startPortBasedProxies: one goroutine per rule of the snapshot that
\* carries a port.  main starts it once, as a goroutine, before serving.
startPortBasedProxies ==
    /\ portsPc = "pending"
    /\ portsPc' = "done"
    /\ LET snapshot == rules
       IN  spawned' = {snapshot[k] : k \in {j \in 1..Len(snapshot) :
                                                snapshot[j].Port > 0}}
    /\ UNCHANGED <<listeners, portResp, coreVars>>

\* The goroutine of rule r calls http.ListenAndServe: it binds the port, or
\* fails and ends when the port is taken
ListenAndServe(r) ==
    /\ r \in spawned
    /\ spawned' = spawned \ {r}
    /\ listeners' =
            IF r.Port \in DOMAIN listeners THEN listeners
            ELSE [port \in DOMAIN listeners \cup {r.Port} |->
                    IF port = r.Port THEN r ELSE listeners[port]]
    /\ UNCHANGED <<portsPc, portResp, coreVars>>

\* ProxyManager.ServePortProxy for a request on a listening port: the
\* instance of the captured rule forwards the request, its path unchanged
ServePortProxy(port, path) ==
    /\ port \in DOMAIN listeners
    /\ LET got == getOrCreateProxy(listeners[port], proxies)
       IN  /\ proxies' = got.cache
           /\ portResp' =
                IF got.ok
                THEN [port |-> port, path |-> path, out |-> "forwarded",
                      target |-> got.proxy.target, fwd |-> path]
                ELSE [port |-> port, path |-> path, out |-> "500",
                      target |-> "", fwd |-> Empty]
    /\ UNCHANGED <<portsPc, spawned, listeners, rules, req, pendingRefresh,
                   nextUUID>>

\* Bodies of add and update requests for port rules
PortBodies ==
    {Rule("p", Empty, 9000, TargetX, FALSE),
     Rule("p", Empty, 9000, TargetY, FALSE),
     Rule("q", PApi, 9000, TargetY, TRUE),
     Rule("", Empty, 9001, TargetX, FALSE)}

PortIDs == {"p", "q"}
Ports == {9000, 9001}

NextPort ==
    \/ \E body \in PortBodies : addProxy(body) /\ UNCHANGED <<mon, portVars, lockVars, hubVars, watchVars, streamVars, bootVars, pmVars, heapVars, dirVars>>
    \/ \E id \in PortIDs, body \in PortBodies :
            updateProxy(id, body) /\ UNCHANGED <<mon, portVars, lockVars, hubVars, watchVars, streamVars, bootVars, pmVars, heapVars, dirVars>>
    \/ \E id \in PortIDs : deleteProxy(id) /\ UNCHANGED <<mon, portVars, lockVars, hubVars, watchVars, streamVars, bootVars, pmVars, heapVars, dirVars>>
    \/ RefreshProxies /\ UNCHANGED <<mon, portVars, lockVars, hubVars, watchVars, streamVars, bootVars, pmVars, heapVars, dirVars>>
    \/ startPortBasedProxies /\ UNCHANGED <<mon, lockVars, hubVars, watchVars, adminVars, streamVars, bootVars, pmVars, heapVars, dirVars>>
    \/ \E r \in spawned : ListenAndServe(r) /\ UNCHANGED <<mon, lockVars, hubVars, watchVars, adminVars, streamVars, bootVars, pmVars, heapVars, dirVars>>
    \/ \E port \in Ports, path \in ProxyPaths :
            ServePortProxy(port, path) /\ UNCHANGED <<mon, lockVars, hubVars, watchVars, adminVars, streamVars, bootVars, pmVars, heapVars, dirVars>>

SpecPort == InitProxy /\ [][NextPort]_vars

----------------------------------------------------------------------------
(* package proxy: getOrCreateProxy statement by statement, under pm.mu,    *)
(* with the identity of every instance it makes.                           *)

\* PMCanLock gone wrong: Lock returns while another call holds the lock
PMCanLockAlways(mu) == TRUE

\* sync.RWMutex used with Lock only: Lock returns when nobody holds it
PMCanLock(mu) == mu = 0

\* getOrCreateProxy(rule) is called and its pm.mu.Lock() returns
GocLock(p, rule) ==
    /\ goc[p].pc = "idle"
    /\ allocs < MaxInst
    /\ PMCanLock(pmMu)
    /\ pmMu' = p
    /\ goc' = [goc EXCEPT ![p] = [IdleGoc EXCEPT !.pc = "lookup", !.rule = rule]]
    /\ UNCHANGED <<pmProxies, allocs>>

\* if proxy, exists := pm.proxies[rule.ID]; exists { return proxy }
GocLookup(p) ==
    /\ goc[p].pc = "lookup"
    /\ goc' = [goc EXCEPT ![p] =
            IF goc[p].rule.ID \in DOMAIN pmProxies
            THEN [@ EXCEPT !.pc = "unlock", !.proxy = pmProxies[goc[p].rule.ID]]
            ELSE [@ EXCEPT !.pc = "parse"]]
    /\ UNCHANGED <<pmMu, pmProxies, allocs>>

\* url.Parse(rule.TargetURL): nil is returned when it fails
GocParse(p) ==
    /\ goc[p].pc = "parse"
    /\ goc' = [goc EXCEPT ![p].pc =
            IF ParseOK(goc[p].rule.TargetURL) THEN "new" ELSE "unlock"]
    /\ UNCHANGED <<pmMu, pmProxies, allocs>>

\* httputil.NewSingleHostReverseProxy(targetURL): an instance at a new address
GocNew(p) ==
    /\ goc[p].pc = "new"
    /\ allocs' = allocs + 1
    /\ goc' = [goc EXCEPT ![p].pc = "store", ![p].proxy = allocs + 1]
    /\ UNCHANGED <<pmMu, pmProxies>>

\* pm.proxies[rule.ID] = proxy
GocStore(p) ==
    /\ goc[p].pc = "store"
    /\ pmProxies' = [id \in DOMAIN pmProxies \cup {goc[p].rule.ID} |->
            IF id = goc[p].rule.ID THEN goc[p].proxy ELSE pmProxies[id]]
    /\ goc' = [goc EXCEPT ![p].pc = "unlock"]
    /\ UNCHANGED <<pmMu, allocs>>

\* The deferred Unlock, and the return of goc[p].proxy
GocUnlock(p) ==
    /\ goc[p].pc = "unlock"
    /\ pmMu' = 0
    /\ goc' = [goc EXCEPT ![p] = IdleGoc]
    /\ UNCHANGED <<pmProxies, allocs>>

\* ProxyManager.RefreshProxies, under pm.mu from beginning to end.  The
\* instances made before it are no longer counted.
PMRefresh ==
    /\ PMCanLock(pmMu)
    /\ pmProxies # NoInstances
    /\ pmProxies' = NoInstances
    /\ allocs' = 0
    /\ UNCHANGED <<pmMu, goc>>

\* The rules the callers' snapshots hold: one ID with two targets and with
\* a target that does not parse, and another ID
GocRules ==
    {Rule("a", PApi, 0, TargetX, FALSE), Rule("a", PApi, 0, TargetY, FALSE),
     Rule("a", PApi, 0, BadURL, FALSE), Rule("b", Empty, 9000, TargetX, FALSE)}

otherThanPM == <<coreVars, mon, portVars, lockVars, hubVars, watchVars,
                 adminVars, streamVars, bootVars, heapVars, dirVars>>

NextCache ==
    \/ \E p \in 1..NGet, rule \in GocRules :
            GocLock(p, rule) /\ UNCHANGED <<ledger, otherThanPM>>
    \/ \E p \in 1..NGet : GocLookup(p) /\ UNCHANGED <<ledger, otherThanPM>>
    \/ \E p \in 1..NGet : GocParse(p) /\ UNCHANGED <<ledger, otherThanPM>>
    \/ \E p \in 1..NGet :
            /\ GocNew(p)
            /\ ledger' = [ledger EXCEPT
                    !.built = @ \cup {<<goc[p].rule.ID, allocs + 1>>}]
            /\ UNCHANGED otherThanPM
    \/ \E p \in 1..NGet : GocStore(p) /\ UNCHANGED <<ledger, otherThanPM>>
    \/ \E p \in 1..NGet :
            /\ GocUnlock(p)
            /\ ledger' = [ledger EXCEPT
                    !.given = @ \cup {<<goc[p].rule.ID, goc[p].proxy>>}]
            /\ UNCHANGED otherThanPM
    \/ PMRefresh /\ ledger' = NoLedger /\ UNCHANGED otherThanPM

SpecCache == InitProxy /\ [][NextCache]_vars

----------------------------------------------------------------------------
(* package config under its lock: the methods of Config step by step.      *)
(* A struct is stored in two steps and a slice is copied or shifted one    *)
(* element per step, so that what c.mu excludes can be seen.               *)

\* CanRLock gone wrong: GetProxyRules reads without waiting for the writer
CanRLockAlways(mu) == TRUE

\* sync.RWMutex: RLock returns when no writer holds the lock
CanRLock(mu) == mu.writer = 0

\* CanLock gone wrong: Lock does not wait for the readers
CanLockOverReaders(mu) == mu.writer = 0

\* sync.RWMutex: Lock returns when nobody holds the lock
CanLock(mu) == mu.writer = 0 /\ mu.readers = {}

Mutators == {"add", "update", "delete", "import"}

\* GetProxyRules is called
Call(p) ==
    /\ sp[p].pc = "idle"
    /\ sp' = [sp EXCEPT ![p] = [IdleCall EXCEPT !.pc = "lock", !.op = "get"]]
    /\ UNCHANGED <<rules, cfgMu>>

\* c.mu.RLock() in GetProxyRules, then make([]ProxyRule, len(...))
AcquireRead(p) ==
    /\ sp[p].pc = "lock"
    /\ sp[p].op = "get"
    /\ CanRLock(cfgMu)
    /\ cfgMu' = [cfgMu EXCEPT !.readers = @ \cup {p}]
    /\ sp' = [sp EXCEPT ![p].pc = "body", ![p].n = Len(rules)]
    /\ UNCHANGED rules

\* A mutating method is called and its c.mu.Lock() returns
AcquireWrite(p, op, id, rule, list) ==
    /\ sp[p].pc = "idle"
    /\ op \in Mutators
    /\ CanLock(cfgMu)
    /\ cfgMu' = [cfgMu EXCEPT !.writer = p]
    /\ sp' = [sp EXCEPT ![p] = [IdleCall EXCEPT !.pc = "body", !.op = op,
                                   !.id = id, !.rule = rule, !.list = list]]
    /\ UNCHANGED rules

\* GetProxyRules: copy(rules, c.settings.ProxyRules), one element per step
GetCopy(p) ==
    /\ sp[p].pc = "body"
    /\ sp[p].op = "get"
    /\ LET next == Len(sp[p].buf) + 1
       IN  sp' = [sp EXCEPT ![p] =
                IF next > sp[p].n
                THEN [@ EXCEPT !.pc = "unlock"]
                ELSE [@ EXCEPT !.buf = Append(@,
                        IF next <= Len(rules) THEN rules[next] ELSE ZeroRule)]]
    /\ UNCHANGED <<rules, cfgMu>>

\* AddProxyRule: the append
AddBody(p) ==
    /\ sp[p].pc = "body"
    /\ sp[p].op = "add"
    /\ rules' = AddProxyRule(rules, sp[p].rule)
    /\ sp' = [sp EXCEPT ![p].pc = "unlock"]
    /\ UNCHANGED cfgMu

\* UpdateBody1 gone wrong: rule.ID = id is left out
UpdateBody1KeepsID(p) ==
    /\ sp[p].pc = "body"
    /\ sp[p].op = "update"
    /\ LET k == IndexOfID(rules, sp[p].id)
       IN  IF k = 0
           THEN /\ sp' = [sp EXCEPT ![p].pc = "unlock"]
                /\ UNCHANGED rules
           ELSE /\ sp' = [sp EXCEPT ![p].pc = "body2", ![p].k = k]
                /\ rules' = [rules EXCEPT ![k] =
                        [@ EXCEPT !.ID = sp[p].rule.ID,
                                  !.PathPrefix = sp[p].rule.PathPrefix,
                                  !.Port = sp[p].rule.Port]]
    /\ UNCHANGED cfgMu

\* UpdateProxyRule: the search, and the first half of the element's store
UpdateBody1(p) ==
    /\ sp[p].pc = "body"
    /\ sp[p].op = "update"
    /\ LET k == IndexOfID(rules, sp[p].id)
       IN  IF k = 0
           THEN /\ sp' = [sp EXCEPT ![p].pc = "unlock"]
                /\ UNCHANGED rules
           ELSE /\ sp' = [sp EXCEPT ![p].pc = "body2", ![p].k = k]
                /\ rules' = [rules EXCEPT ![k] =
                        [@ EXCEPT !.ID = sp[p].id,
                                  !.PathPrefix = sp[p].rule.PathPrefix,
                                  !.Port = sp[p].rule.Port]]
    /\ UNCHANGED cfgMu

\* UpdateProxyRule: the second half of the element's store
UpdateBody2(p) ==
    /\ sp[p].pc = "body2"
    /\ sp[p].op = "update"
    /\ rules' = [rules EXCEPT ![sp[p].k] =
            [@ EXCEPT !.TargetURL = sp[p].rule.TargetURL,
                      !.StripPrefix = sp[p].rule.StripPrefix]]
    /\ sp' = [sp EXCEPT ![p].pc = "unlock"]
    /\ UNCHANGED cfgMu

\* DeleteProxyRule: the search
DeleteBody1(p) ==
    /\ sp[p].pc = "body"
    /\ sp[p].op = "delete"
    /\ LET k == IndexOfID(rules, sp[p].id)
       IN  sp' = [sp EXCEPT ![p] =
                IF k = 0 THEN [@ EXCEPT !.pc = "unlock"]
                ELSE [@ EXCEPT !.pc = "body2", !.k = k]]
    /\ UNCHANGED <<rules, cfgMu>>

\* DeleteBody2 gone wrong: the slice is cut without moving the tail down
DeleteBody2Truncates(p) ==
    /\ sp[p].pc = "body2"
    /\ sp[p].op = "delete"
    /\ rules' = SubSeq(rules, 1, Len(rules) - 1)
    /\ sp' = [sp EXCEPT ![p].pc = "unlock"]
    /\ UNCHANGED cfgMu

\* DeleteProxyRule: append(s[:i], s[i+1:]...) moves the tail down in place,
\* one element per step, and then the shorter slice is stored
DeleteBody2(p) ==
    /\ sp[p].pc = "body2"
    /\ sp[p].op = "delete"
    /\ LET k == sp[p].k
       IN  IF k < Len(rules)
           THEN /\ rules' = [rules EXCEPT ![k] = rules[k + 1]]
                /\ sp' = [sp EXCEPT ![p].k = k + 1]
           ELSE /\ rules' = SubSeq(rules, 1, Len(rules) - 1)
                /\ sp' = [sp EXCEPT ![p].pc = "unlock"]
    /\ UNCHANGED cfgMu

\* ImportSettings: c.settings = newSettings
ImportBody(p) ==
    /\ sp[p].pc = "body"
    /\ sp[p].op = "import"
    /\ rules' = sp[p].list
    /\ sp' = [sp EXCEPT ![p].pc = "unlock"]
    /\ UNCHANGED cfgMu

\* GetProxyRules: the deferred RUnlock
ReleaseRead(p) ==
    /\ sp[p].pc = "unlock"
    /\ sp[p].op = "get"
    /\ cfgMu' = [cfgMu EXCEPT !.readers = @ \ {p}]
    /\ sp' = [sp EXCEPT ![p].pc = "ret"]
    /\ UNCHANGED rules

\* A mutating method: the deferred Unlock, and the return
ReleaseWrite(p) ==
    /\ sp[p].pc = "unlock"
    /\ sp[p].op \in Mutators
    /\ cfgMu' = [cfgMu EXCEPT !.writer = 0]
    /\ sp' = [sp EXCEPT ![p] = IdleCall]
    /\ UNCHANGED rules

\* GetProxyRules returns its copy
Return(p) ==
    /\ sp[p].pc = "ret"
    /\ sp' = [sp EXCEPT ![p] = IdleCall]
    /\ UNCHANGED <<rules, cfgMu>>

StoreRuleA == Rule("a", PApi, 0, TargetX, FALSE)
StoreRuleB == Rule("b", PApiV2, 9000, TargetY, TRUE)
StoreRules == {StoreRuleA, StoreRuleB}
StoreLists == {<< >>, <<StoreRuleB, StoreRuleA>>}

\* Mutations begun so far
Begun == Len(hist) - 1 + (IF cfgMu.writer = 0 THEN 0 ELSE 1)

otherThanLock == <<proxies, req, pendingRefresh, nextUUID, mon, portVars, hubVars, watchVars, adminVars, streamVars, bootVars, pmVars, heapVars, dirVars>>

InitStore ==
    /\ rules = << >>
    /\ InitProxyCommon
    /\ InitPorts
    /\ mon = MonOff

NextStore ==
    \/ \E p \in 1..NCalls :
            /\ Call(p)
            /\ readLo' = [readLo EXCEPT ![p] = Len(hist)]
            /\ UNCHANGED <<hist, otherThanLock>>
    \/ \E p \in 1..NCalls : AcquireRead(p) /\ UNCHANGED <<hist, readLo, otherThanLock>>
    \/ \E p \in 1..NCalls, op \in Mutators, r \in StoreRules, l \in StoreLists :
            /\ Begun < MaxMut
            /\ op = "add" => Len(rules) < MaxRules
            /\ AcquireWrite(p, op, IF op \in {"update", "delete"} THEN "a" ELSE "",
                    IF op \in {"add", "update"} THEN r ELSE ZeroRule,
                    IF op = "import" THEN l ELSE << >>)
            /\ UNCHANGED <<hist, readLo, otherThanLock>>
    \/ \E p \in 1..NCalls : GetCopy(p) /\ UNCHANGED <<hist, readLo, otherThanLock>>
    \/ \E p \in 1..NCalls : AddBody(p) /\ UNCHANGED <<hist, readLo, otherThanLock>>
    \/ \E p \in 1..NCalls : UpdateBody1(p) /\ UNCHANGED <<hist, readLo, otherThanLock>>
    \/ \E p \in 1..NCalls : UpdateBody2(p) /\ UNCHANGED <<hist, readLo, otherThanLock>>
    \/ \E p \in 1..NCalls : DeleteBody1(p) /\ UNCHANGED <<hist, readLo, otherThanLock>>
    \/ \E p \in 1..NCalls : DeleteBody2(p) /\ UNCHANGED <<hist, readLo, otherThanLock>>
    \/ \E p \in 1..NCalls : ImportBody(p) /\ UNCHANGED <<hist, readLo, otherThanLock>>
    \/ \E p \in 1..NCalls : ReleaseRead(p) /\ UNCHANGED <<hist, readLo, otherThanLock>>
    \/ \E p \in 1..NCalls :
            /\ ReleaseWrite(p)
            /\ hist' = Append(hist, rules)
            /\ UNCHANGED <<readLo, otherThanLock>>
    \/ \E p \in 1..NCalls :
            /\ Return(p)
            /\ readLo' = [readLo EXCEPT ![p] = 0]
            /\ UNCHANGED <<hist, otherThanLock>>

SpecStore == InitStore /\ [][NextStore]_vars

\* One mutating method on a stored list of any shape: rules that share an
\* identifier, and identifiers no rule has
StoredA1 == Rule("a", PApi, 0, TargetX, FALSE)
StoredA2 == Rule("a", PApiV2, 9000, TargetY, TRUE)
StoredB == Rule("b", PApi, 0, TargetX, FALSE)
ConfigStored == {StoredA1, StoredA2, StoredB}
ConfigIDs == {"a", "b", "c"}
ConfigInputs == {Rule("z", PApiV2, 9001, TargetY, FALSE), StoredA1}

InitConfig ==
    /\ rules \in SeqsUpTo(ConfigStored, MaxStored)
    /\ InitProxyCommon
    /\ InitPorts
    /\ mon = MonOff

NextConfig ==
    \/ \E p \in 1..NCalls, op \in {"add", "update", "delete"},
          id \in ConfigIDs, r \in ConfigInputs :
            /\ Len(hist) = 1
            /\ AcquireWrite(p, op, IF op \in {"update", "delete"} THEN id ELSE "",
                    IF op \in {"add", "update"} THEN r ELSE ZeroRule, << >>)
            /\ UNCHANGED <<hist, readLo, otherThanLock>>
    \/ \E p \in 1..NCalls : AddBody(p) /\ UNCHANGED <<hist, readLo, otherThanLock>>
    \/ \E p \in 1..NCalls : UpdateBody1(p) /\ UNCHANGED <<hist, readLo, otherThanLock>>
    \/ \E p \in 1..NCalls : UpdateBody2(p) /\ UNCHANGED <<hist, readLo, otherThanLock>>
    \/ \E p \in 1..NCalls : DeleteBody1(p) /\ UNCHANGED <<hist, readLo, otherThanLock>>
    \/ \E p \in 1..NCalls : DeleteBody2(p) /\ UNCHANGED <<hist, readLo, otherThanLock>>
    \/ \E p \in 1..NCalls :
            /\ ReleaseWrite(p)
            /\ hist' = Append(hist, rules)
            /\ UNCHANGED <<readLo, otherThanLock>>

SpecConfig == InitConfig /\ [][NextConfig]_vars

----------------------------------------------------------------------------
(* package config: the rule list as a Go slice.  A slice is a header, the  *)
(* address of a backing array and a length; the capacity is the array's    *)
(* length.  Each method runs under c.mu from beginning to end.             *)

\* The elements of a slice
SliceVal(h, s) == IF s.arr = 0 THEN << >> ELSE SubSeq(h[s.arr], 1, s.len)

\* cap(s)
Cap(h, s) == IF s.arr = 0 THEN 0 ELSE Len(h[s.arr])

\* MakeCopy gone wrong: the stored slice itself is returned
MakeCopyShares(h, s) == [heap |-> h, slice |-> s]

\* make([]ProxyRule, len(s)) and copy: a new array with the elements of s
MakeCopy(h, s) ==
    [heap |-> Append(h, SliceVal(h, s)),
     slice |-> [arr |-> Len(h) + 1, len |-> s.len]]

\* append(s, rule): in place when the capacity allows it, else into a new
\* array of twice the capacity
GoAppend(h, s, rule) ==
    IF s.len < Cap(h, s)
    THEN [heap |-> [h EXCEPT ![s.arr][s.len + 1] = rule],
          slice |-> [s EXCEPT !.len = @ + 1]]
    ELSE LET newcap == IF Cap(h, s) = 0 THEN 1 ELSE Cap(h, s) + Cap(h, s)
             array == [j \in 1..newcap |->
                          IF j <= s.len THEN h[s.arr][j]
                          ELSE IF j = s.len + 1 THEN rule ELSE ZeroRule]
         IN  [heap |-> Append(h, array),
              slice |-> [arr |-> Len(h) + 1, len |-> s.len + 1]]

\* append(s[:k], s[k+1:]...): the elements after k move down by one in the
\* same array, the last one stays where it was beyond the new length
GoRemove(h, s, k) ==
    [heap |-> [h EXCEPT ![s.arr] =
                  [j \in 1..Len(h[s.arr]) |->
                      IF k <= j /\ j < s.len THEN h[s.arr][j + 1] ELSE h[s.arr][j]]],
     slice |-> [s EXCEPT !.len = @ - 1]]

\* The garbage collector: an array no slice points to is gone; its
\* address is not given out again
Collect(h, s, returned) ==
    [a \in 1..Len(h) |->
        IF a = s.arr \/ \E n \in 1..Len(returned) : returned[n].arr = a
        THEN h[a] ELSE << >>]

\* Config.GetProxyRules
HeapGet ==
    /\ Len(snaps) < MaxSnaps
    /\ Len(heap) < MaxHeap
    /\ LET got == MakeCopy(heap, cfgSlice)
       IN  /\ heap' = got.heap
           /\ snaps' = Append(snaps, got.slice)
    /\ UNCHANGED cfgSlice

\* Config.AddProxyRule
HeapAdd(rule) ==
    /\ cfgSlice.len < MaxRules
    /\ cfgSlice.len < Cap(heap, cfgSlice) \/ Len(heap) < MaxHeap
    /\ LET got == GoAppend(heap, cfgSlice, rule)
       IN  heap' = Collect(got.heap, got.slice, snaps) /\ cfgSlice' = got.slice
    /\ UNCHANGED snaps

\* Config.UpdateProxyRule, when a rule has the ID
HeapUpdate(id, rule) ==
    /\ LET k == IndexOfID(SliceVal(heap, cfgSlice), id)
       IN  /\ k # 0
           /\ heap' = [heap EXCEPT ![cfgSlice.arr][k] = [rule EXCEPT !.ID = id]]
    /\ UNCHANGED <<cfgSlice, snaps>>

\* Config.DeleteProxyRule, when a rule has the ID
HeapDelete(id) ==
    /\ LET k == IndexOfID(SliceVal(heap, cfgSlice), id)
       IN  /\ k # 0
           /\ LET got == GoRemove(heap, cfgSlice, k)
              IN  heap' = got.heap /\ cfgSlice' = got.slice
    /\ UNCHANGED snaps

\* Config.ImportSettings: the decoder's slice, in an array of its own
HeapImport(list) ==
    /\ Len(heap) < MaxHeap
    /\ LET slice == [arr |-> Len(heap) + 1, len |-> Len(list)]
       IN  heap' = Collect(Append(heap, list), slice, snaps) /\ cfgSlice' = slice
    /\ UNCHANGED snaps

\* The caller of GetProxyRules stores into the list it got
CallerStore(n, k, rule) ==
    /\ n \in 1..Len(snaps)
    /\ k \in 1..snaps[n].len
    /\ heap[snaps[n].arr][k] # rule
    /\ heap' = [heap EXCEPT ![snaps[n].arr][k] = rule]
    /\ UNCHANGED <<cfgSlice, snaps>>

CallerRule == Rule("w", PApiBare, 9001, TargetY, TRUE)

otherThanHeap == <<proxies, req, pendingRefresh, nextUUID, mon, portVars,
                   lockVars, hubVars, watchVars, adminVars, streamVars,
                   bootVars, pmVars, dirVars>>

\* rules is the list the methods are to have built
NextSnapshot ==
    \/ /\ HeapGet
       /\ held' = Append(held, rules)
       /\ UNCHANGED <<rules, otherThanHeap>>
    \/ \E r \in StoreRules :
            /\ HeapAdd(r)
            /\ rules' = AddProxyRule(rules, r)
            /\ UNCHANGED <<held, otherThanHeap>>
    \/ \E id \in {"a"}, r \in {StoreRuleB} :
            /\ HeapUpdate(id, r)
            /\ rules' = UpdateProxyRule(rules, id, r).list
            /\ UNCHANGED <<held, otherThanHeap>>
    \/ \E id \in {"a", "b"} :
            /\ HeapDelete(id)
            /\ rules' = DeleteProxyRule(rules, id).list
            /\ UNCHANGED <<held, otherThanHeap>>
    \/ \E l \in {<<StoreRuleB, StoreRuleA>>} :
            /\ HeapImport(l)
            /\ rules' = l
            /\ UNCHANGED <<held, otherThanHeap>>
    \/ \E n \in 1..MaxSnaps, k \in 1..MaxRules :
            /\ CallerStore(n, k, CallerRule)
            /\ held' = [held EXCEPT ![n][k] = CallerRule]
            /\ UNCHANGED <<rules, otherThanHeap>>

SpecSnapshot == InitStore /\ [][NextSnapshot]_vars

----------------------------------------------------------------------------
(* package fileserver: the change hub.  HandleSSE per connection and       *)
(* BroadcastChange per call, each statement that touches fs.clients or a   *)
(* channel a step of its own.                                              *)

\* new EventSource('/__sse') in the embedded watcher-client.js
WatcherStreamURL == <<"/", "_", "_", "s", "s", "e">>

StreamURLs == {PEvents, WatcherStreamURL}

Msgs == {"index.html modified"}

\* A request for a stream URL arrives and the mux picks its handler.  Routed
\* to HandleSSE, it passes or fails the http.Flusher test and makes its
\* channel; routed to the root handler, the file server answers it.  A new
\* connection is given the lowest number not in use.
Connect(i, path, flusher) ==
    /\ conn[i].pc = "idle"
    /\ \A j \in 1..(i - 1) : conn[j].pc # "idle"
    /\ LET h == ServeMux(path)
       IN  conn' = [conn EXCEPT ![i] =
                IF h # "sse"
                THEN [pc |-> "answered", path |-> path, handler |-> h, out |-> "file"]
                ELSE IF ~flusher
                THEN [pc |-> "answered", path |-> path, handler |-> h, out |-> "500"]
                ELSE [pc |-> "register", path |-> path, handler |-> h, out |-> "none"]]
    /\ queue' = [queue EXCEPT ![i] = << >>]
    /\ UNCHANGED <<hubMu, clients, bc>>

\* A request answered without a stream is over
Answered(i) ==
    /\ conn[i].pc = "answered"
    /\ conn' = [conn EXCEPT ![i] = IdleConn]
    /\ UNCHANGED <<hubMu, clients, queue, bc>>

\* HandleSSE: fs.clients[clientChan] = true under fs.mu, the deferred
\* removal armed, the confirmation written and the ticker started
Register(i) ==
    /\ conn[i].pc = "register"
    /\ CanLock(hubMu)
    /\ clients' = clients \cup {i}
    /\ conn' = [conn EXCEPT ![i].pc = "loop", ![i].out = "stream"]
    /\ UNCHANGED <<hubMu, queue, bc>>

\* HandleSSE: case msg, ok := <-clientChan, written as a data line
Recv(i) ==
    /\ conn[i].pc = "loop"
    /\ queue[i] # << >>
    /\ queue' = [queue EXCEPT ![i] = Tail(@)]
    /\ UNCHANGED <<hubMu, clients, conn, bc>>

\* HandleSSE: case <-ticker.C, a keep-alive comment
Tick(i) ==
    /\ conn[i].pc = "loop"
    /\ UNCHANGED <<hubMu, clients, queue, conn, bc>>

\* Unsubscribe gone wrong: the channel stays in the registry
UnsubscribeLeaks(set, i) == set

\* delete(fs.clients, clientChan)
Unsubscribe(set, i) == set \ {i}

\* HandleSSE: case <-r.Context().Done(), the return and the deferred removal
\* under fs.mu.  The handler that has left its loop and waits for fs.mu reads
\* its channel no more; here it is a handler still in its loop that does not
\* read, which the registry and the channels cannot tell apart.
Exit(i) ==
    /\ conn[i].pc = "loop"
    /\ CanLock(hubMu)
    /\ clients' = Unsubscribe(clients, i)
    /\ conn' = [conn EXCEPT ![i] = IdleConn]
    /\ queue' = [queue EXCEPT ![i] = << >>]
    /\ UNCHANGED <<hubMu, bc>>

\* BroadcastChange: fs.mu.RLock(), then the range over fs.clients begins
BroadcastStart(b, msg) ==
    /\ bc[b].pc = "idle"
    /\ CanRLock(hubMu)
    /\ hubMu' = [hubMu EXCEPT !.readers = @ \cup {b}]
    /\ bc' = [bc EXCEPT ![b] = [pc |-> "range", msg |-> msg, todo |-> clients]]
    /\ UNCHANGED <<clients, queue, conn>>

\* CanSend gone wrong: the send waits for room
CanSendBlocking(q) == Len(q) < ChanCap

\* A select with a default branch is never held up by the channel
CanSend(q) == TRUE

\* select { case clientChan <- message: default: }
Send(q, msg) == IF Len(q) < ChanCap THEN Append(q, msg) ELSE q

\* BroadcastChange: one iteration of the range
BroadcastSend(b, c) ==
    /\ bc[b].pc = "range"
    /\ c \in bc[b].todo
    /\ CanSend(queue[c])
    /\ queue' = [queue EXCEPT ![c] = Send(@, bc[b].msg)]
    /\ bc' = [bc EXCEPT ![b].todo = @ \ {c}]
    /\ UNCHANGED <<hubMu, clients, conn>>

\* BroadcastChange: the range is over, the deferred RUnlock, the return
BroadcastEnd(b) ==
    /\ bc[b].pc = "range"
    /\ bc[b].todo = {}
    /\ hubMu' = [hubMu EXCEPT !.readers = @ \ {b}]
    /\ bc' = [bc EXCEPT ![b] = IdleCast]
    /\ UNCHANGED <<clients, queue, conn>>

otherThanHub == <<coreVars, mon, portVars, cfgMu, sp, hist, readLo, watchVars, adminVars, streamVars, bootVars, pmVars, heapVars, dirVars>>

NextHub ==
    \/ \E i \in 1..NConn, path \in StreamURLs, flusher \in BOOLEAN :
            Connect(i, path, flusher) /\ UNCHANGED <<castLog, cycles, otherThanHub>>
    \/ \E i \in 1..NConn : Answered(i) /\ UNCHANGED <<castLog, cycles, otherThanHub>>
    \/ \E i \in 1..NConn : Register(i) /\ UNCHANGED <<castLog, cycles, otherThanHub>>
    \/ \E i \in 1..NConn : Recv(i) /\ UNCHANGED <<castLog, cycles, otherThanHub>>
    \/ \E i \in 1..NConn : Tick(i) /\ UNCHANGED <<castLog, cycles, otherThanHub>>
    \/ \E i \in 1..NConn :
            /\ Exit(i)
            /\ cycles' = TRUE
            /\ UNCHANGED <<castLog, otherThanHub>>
    \/ \E b \in 1..NCast, msg \in Msgs :
            /\ BroadcastStart(b, msg)
            /\ castLog' = NoLog
            /\ UNCHANGED <<cycles, otherThanHub>>
    \/ \E b \in 1..NCast, c \in 1..NConn :
            /\ BroadcastSend(b, c)
            /\ castLog' = IF Len(queue[c]) < ChanCap
                          THEN [castLog EXCEPT !.sent = TRUE]
                          ELSE [castLog EXCEPT !.skipped = TRUE]
            /\ UNCHANGED <<cycles, otherThanHub>>
    \/ \E b \in 1..NCast :
            /\ BroadcastEnd(b)
            /\ castLog' = NoLog
            /\ UNCHANGED <<cycles, otherThanHub>>

SpecHub == InitStore /\ [][NextHub]_vars

----------------------------------------------------------------------------
(* package fileserver: HandleSSE statement by statement.  The registration, *)
(* the confirmation, each turn of the loop, the return and the deferred     *)
(* removal are steps of their own, and the client may go away at any of     *)
(* them.  Each message carries the number of its call of BroadcastChange,   *)
(* so that the logs tell two messages of the same text apart.               *)

\* HandleSSE has passed the http.Flusher test and made its channel:
\* fs.clients[clientChan] = true, under fs.mu.Lock.  Until then nothing of
\* the handler can be seen, so its beginning is one step with it.  A new
\* connection is given the lowest number not in use.
Subscribe(i) ==
    /\ strm[i].pc = "idle"
    /\ \A j \in 1..(i - 1) : strm[j].pc # "idle"
    /\ CanLock(hubMu)
    /\ clients' = clients \cup {i}
    /\ strm' = [strm EXCEPT ![i].pc = "confirm"]
    /\ queue' = [queue EXCEPT ![i] = << >>]
    /\ UNCHANGED <<hubMu, bc>>

\* What a connection wrote first, given what it writes now
First(was, now) == IF was = "none" THEN now ELSE was

\* The writes "data: Connected to file watcher" and the flush; the ticker
\* starts and the loop is entered
Confirm(i) ==
    /\ strm[i].pc = "confirm"
    /\ strm' = [strm EXCEPT ![i].pc = "loop",
                            ![i].first = First(@, "confirm")]
    /\ UNCHANGED <<hubMu, clients, queue, bc>>

\* InLoop gone wrong: the loop runs beside the confirmation
InLoopEarly(pc) == pc \in {"confirm", "loop"}

\* The select is reached only after the confirmation has been flushed
InLoop(pc) == pc = "loop"

\* Dequeue gone wrong: the message stays in the channel
DequeueKeeps(q) == q

\* A receive takes the channel's oldest message away
Dequeue(q) == Tail(q)

\* case msg, ok := <-clientChan: the message is written as a data line
RecvWrite(i) ==
    /\ InLoop(strm[i].pc)
    /\ queue[i] # << >>
    /\ queue' = [queue EXCEPT ![i] = Dequeue(@)]
    /\ strm' = [strm EXCEPT ![i].first = First(@, "data")]
    /\ UNCHANGED <<hubMu, clients, bc>>

\* case <-ticker.C: a keep-alive comment is written
Heartbeat(i) ==
    /\ InLoop(strm[i].pc)
    /\ strm' = [strm EXCEPT ![i].first = First(@, "tick")]
    /\ UNCHANGED <<hubMu, clients, queue, bc>>

\* The client goes away: r.Context() is done from now on.  The handler
\* looks at the context in its loop only, so a client that goes away sooner
\* is one that goes away as the loop begins.
Disconnect(i) ==
    /\ strm[i].pc = "loop"
    /\ ~strm[i].done
    /\ strm' = [strm EXCEPT ![i].done = TRUE]
    /\ UNCHANGED <<hubMu, clients, queue, bc>>

\* DoneReady gone wrong: the select has no case for the context
DoneReadyNever(done) == FALSE

\* <-r.Context().Done() can proceed once the context is done
DoneReady(done) == done

\* case <-r.Context().Done(): return; the deferred function is next
LeaveLoop(i) ==
    /\ strm[i].pc = "loop"
    /\ DoneReady(strm[i].done)
    /\ strm' = [strm EXCEPT ![i].pc = "leaving"]
    /\ UNCHANGED <<hubMu, clients, queue, bc>>

\* The deferred function calls fs.mu.Lock and waits for the readers
CallLock(i) ==
    /\ strm[i].pc = "leaving"
    /\ strm' = [strm EXCEPT ![i].pc = "locking"]
    /\ UNCHANGED <<hubMu, clients, queue, bc>>

\* sync.RWMutex: while a Lock waits, a new RLock waits behind it
WriterWaits == \E i \in 1..NStream : strm[i].pc = "locking"

\* The deferred function: delete(fs.clients, clientChan) under fs.mu.Lock;
\* the handler has returned and the channel is garbage
Remove(i) ==
    /\ strm[i].pc = "locking"
    /\ CanLock(hubMu)
    /\ clients' = Unsubscribe(clients, i)
    /\ strm' = [strm EXCEPT ![i] = IdleStream]
    /\ queue' = [queue EXCEPT ![i] = << >>]
    /\ UNCHANGED <<hubMu, bc>>

otherThanStream == <<coreVars, mon, portVars, lockVars, conn, castLog, cycles,
                     watchVars, adminVars, bootVars, pmVars, heapVars, dirVars>>

\* A step of a connection that sends nothing
StreamQuiet == UNCHANGED <<serial, enq, wrote, otherThanStream>>

\* A call of BroadcastChange begins; its message carries the call's number
StreamCast(b) ==
    /\ serial < MaxSerial
    /\ ~WriterWaits
    /\ BroadcastStart(b, serial + 1)
    /\ serial' = serial + 1
    /\ UNCHANGED <<strm, enq, wrote, otherThanStream>>

\* One iteration of the range of call b; the log of the channel takes what
\* the channel took
StreamSend(b) ==
    \E c \in 1..NStream :
        /\ BroadcastSend(b, c)
        /\ enq' = [enq EXCEPT ![c] = IF queue'[c] # queue[c]
                                     THEN Append(@, bc[b].msg) ELSE @]
        /\ UNCHANGED <<strm, serial, wrote, otherThanStream>>

\* The return of call b
StreamCastEnd(b) ==
    /\ BroadcastEnd(b)
    /\ UNCHANGED <<strm, serial, enq, wrote, otherThanStream>>

\* The select takes the context's case
StreamLeave(i) == LeaveLoop(i) /\ StreamQuiet

\* The deferred function comes to its Lock
StreamCallLock(i) == CallLock(i) /\ StreamQuiet

\* The deferred removal; the logs of the connection end with it
StreamRemove(i) ==
    /\ Remove(i)
    /\ enq' = [enq EXCEPT ![i] = << >>]
    /\ wrote' = [wrote EXCEPT ![i] = << >>]
    /\ UNCHANGED <<serial, otherThanStream>>

NextStream ==
    \/ \E i \in 1..NStream : Subscribe(i) /\ StreamQuiet
    \/ \E i \in 1..NStream : Confirm(i) /\ StreamQuiet
    \/ \E i \in 1..NStream :
            /\ RecvWrite(i)
            /\ wrote' = [wrote EXCEPT ![i] = Append(@, Head(queue[i]))]
            /\ UNCHANGED <<serial, enq, otherThanStream>>
    \/ \E i \in 1..NStream : Heartbeat(i) /\ StreamQuiet
    \/ \E i \in 1..NStream : Disconnect(i) /\ StreamQuiet
    \/ \E i \in 1..NStream : StreamLeave(i)
    \/ \E i \in 1..NStream : StreamCallLock(i)
    \/ \E i \in 1..NStream : StreamRemove(i)
    \/ \E b \in 1..NCast : StreamCast(b)
    \/ \E b \in 1..NCast : StreamSend(b)
    \/ \E b \in 1..NCast : StreamCastEnd(b)

SpecStream == InitStore /\ [][NextStream]_vars

\* The same handlers with the logs left out: the messages are those of the
\* watcher, and BroadcastChange is called without end.

\* A call of BroadcastChange begins
LoopCast(b) ==
    /\ ~WriterWaits
    /\ \E msg \in Msgs : BroadcastStart(b, msg)
    /\ UNCHANGED strm
    /\ StreamQuiet

\* One iteration of the range of call b
LoopSend(b) ==
    /\ \E c \in 1..NStream : BroadcastSend(b, c)
    /\ UNCHANGED strm
    /\ StreamQuiet

NextLoop ==
    \/ \E i \in 1..NStream : Subscribe(i) /\ StreamQuiet
    \/ \E i \in 1..NStream : Confirm(i) /\ StreamQuiet
    \/ \E i \in 1..NStream : RecvWrite(i) /\ StreamQuiet
    \/ \E i \in 1..NStream : Heartbeat(i) /\ StreamQuiet
    \/ \E i \in 1..NStream : Disconnect(i) /\ StreamQuiet
    \/ \E i \in 1..NStream : StreamLeave(i)
    \/ \E i \in 1..NStream : StreamCallLock(i)
    \/ \E i \in 1..NStream : StreamRemove(i)
    \/ \E b \in 1..NCast : LoopCast(b)
    \/ \E b \in 1..NCast : LoopSend(b)
    \/ \E b \in 1..NCast : StreamCastEnd(b)

SpecLoop == InitStore /\ [][NextLoop]_vars

\* The goroutines of BroadcastChange and of a handler that has left its
\* loop are runnable and run in the end.  A select with several cases ready
\* takes one of them at random, so the context's case, ready at every turn
\* once the client is gone, is taken in the end.  The Lock of the deferred
\* removal is granted once the readers it found have left.  Nothing is
\* assumed of the receives and the writes to the client: a handler may
\* stall.
SpecLoopFair ==
    /\ SpecLoop
    /\ \A b \in 1..NCast : WF_vars(LoopSend(b)) /\ WF_vars(StreamCastEnd(b))
    /\ \A i \in 1..NStream :
          WF_vars(StreamLeave(i)) /\ WF_vars(StreamCallLock(i)) /\ WF_vars(StreamRemove(i))

----------------------------------------------------------------------------
(* HandleSSE when a write to the client fails.  fmt.Fprintf's result is    *)
(* dropped and Flush returns nothing, so the handler goes on to its next   *)
(* select; what ends it is the request's context, which net/http cancels   *)
(* when a write to the connection fails.                                   *)

\* CtxAfterWrite gone wrong: a failed write leaves the context as it was
CtxAfterWriteKept(done, ok) == done

\* r.Context() after a write to the connection
CtxAfterWrite(done, ok) == done \/ ~ok

\* case msg, ok := <-clientChan, and the write or the flush fails
RecvWriteFails(i) ==
    /\ InLoop(strm[i].pc)
    /\ queue[i] # << >>
    /\ queue' = [queue EXCEPT ![i] = Dequeue(@)]
    /\ strm' = [strm EXCEPT ![i].werr = TRUE,
                            ![i].done = CtxAfterWrite(@, FALSE)]
    /\ UNCHANGED <<hubMu, clients, bc>>

\* case <-ticker.C, and the write or the flush fails
HeartbeatFails(i) ==
    /\ InLoop(strm[i].pc)
    /\ ~strm[i].werr
    /\ strm' = [strm EXCEPT ![i].werr = TRUE,
                            ![i].done = CtxAfterWrite(@, FALSE)]
    /\ UNCHANGED <<hubMu, clients, queue, bc>>

\* Another subscriber, in its loop since before: the connection of the
\* highest number
Peer == NConn

\* One iteration of the range of call b, to any subscriber
FailSend(b) ==
    /\ \E c \in 1..NConn : BroadcastSend(b, c)
    /\ UNCHANGED strm
    /\ StreamQuiet

\* A call of BroadcastChange begins; the calls are counted
FailCast(b) ==
    /\ serial < MaxSerial
    /\ ~WriterWaits
    /\ \E msg \in Msgs : BroadcastStart(b, msg)
    /\ serial' = serial + 1
    /\ UNCHANGED <<strm, enq, wrote, otherThanStream>>

InitFail ==
    /\ rules = << >>
    /\ InitProxyCommon
    /\ mon = MonOff
    /\ InitPortsOnly
    /\ InitLockOnly
    /\ InitWatch
    /\ hubMu = [writer |-> 0, readers |-> {}]
    /\ clients = {Peer}
    /\ queue = [i \in 1..NConn |-> << >>]
    /\ conn = [i \in 1..NConn |->
                  IF i = Peer
                  THEN [pc |-> "loop", path |-> PEvents, handler |-> "sse",
                        out |-> "stream"]
                  ELSE IdleConn]
    /\ bc = [b \in 1..NCast |-> IdleCast]
    /\ castLog = NoLog
    /\ cycles = FALSE

\* One connection whose writes may fail, beside the other subscriber
NextFail ==
    \/ \E i \in {1} : Subscribe(i) /\ StreamQuiet
    \/ \E i \in {1} : Confirm(i) /\ StreamQuiet
    \/ \E i \in {1} : RecvWrite(i) /\ StreamQuiet
    \/ \E i \in {1} : RecvWriteFails(i) /\ StreamQuiet
    \/ \E i \in {1} : HeartbeatFails(i) /\ StreamQuiet
    \/ \E i \in {1} : StreamLeave(i)
    \/ \E i \in {1} : StreamCallLock(i)
    \/ \E i \in {1} : StreamRemove(i)
    \/ Recv(Peer) /\ UNCHANGED strm /\ StreamQuiet
    \/ \E b \in 1..NCast : FailCast(b)
    \/ \E b \in 1..NCast : FailSend(b)
    \/ \E b \in 1..NCast : StreamCastEnd(b)

SpecFail == InitFail /\ [][NextFail]_vars

\* The goroutines of BroadcastChange and of a handler that has left its
\* loop run in the end, and a select takes the context's case in the end
SpecFailFair ==
    /\ SpecFail
    /\ \A b \in 1..NCast : WF_vars(FailSend(b)) /\ WF_vars(StreamCastEnd(b))
    /\ \A i \in 1..NStream :
          WF_vars(StreamLeave(i)) /\ WF_vars(StreamCallLock(i)) /\ WF_vars(StreamRemove(i))

----------------------------------------------------------------------------
(* package fileserver: watchFiles.  A timer is named by the number of the  *)
(* event that made it.  Time is the firing of timers: Elapse says that the *)
(* debounce duration has passed since a timer was made.                    *)

\* event.Op & fsnotify.X == fsnotify.X
Has(op, x) == x \in op

\* EventType gone wrong: the remove bit is looked at first
EventTypeRemoveFirst(op) ==
    IF Has(op, "Remove") THEN "removed"
    ELSE IF Has(op, "Create") THEN "created"
    ELSE IF Has(op, "Rename") THEN "renamed"
    ELSE "modified"

\* The function handed to time.AfterFunc: the kind of the captured event
EventType(op) ==
    IF Has(op, "Create") THEN "created"
    ELSE IF Has(op, "Remove") THEN "removed"
    ELSE IF Has(op, "Rename") THEN "renamed"
    ELSE "modified"

\* filepath.Base of a path of one or more elements
Base(name) == name[Len(name)]

\* fileName + " " + eventType
Message(event) == Base(event.Name) \o " " \o EventType(event.Op)

\* Stop gone wrong: the timer before is left running
StopNot(set, t) == set

\* debounceTimer.Stop(): a timer that has not fired will not
Stop(set, t) == set \ {t}

\* if debounceTimer != nil { Stop }, then time.AfterFunc with this event
Reset(event) ==
    /\ closures' = Append(closures, event)
    /\ debounceTimer' = Len(closures) + 1
    /\ armed' = (IF debounceTimer # 0 THEN Stop(armed, debounceTimer) ELSE armed)
                    \cup {Len(closures) + 1}

\* The created name is a directory: os.Stat says so
IsNewDir(event) == Has(event.Op, "Create") /\ event.IsDir

\* case event := <-watcher.Events, for an event that adds no directory: the
\* whole iteration
HandleEvent(event) ==
    /\ wpc.pc = "select"
    /\ ~IsNewDir(event)
    /\ Reset(event)
    /\ UNCHANGED <<wpc, fired>>

\* case event := <-watcher.Events, for a created directory: addDirRecursive
\* walks it, which takes its time
BeginWalk(event) ==
    /\ wpc.pc = "select"
    /\ IsNewDir(event)
    /\ wpc' = [pc |-> "walk", event |-> event]
    /\ UNCHANGED <<debounceTimer, armed, fired, closures>>

\* The walk is over: the rest of the iteration
EndWalk ==
    /\ wpc.pc = "walk"
    /\ Reset(wpc.event)
    /\ wpc' = [pc |-> "select", event |-> NoEvent]
    /\ UNCHANGED fired

\* case err := <-watcher.Errors: logged
WatcherError ==
    /\ wpc.pc = "select"
    /\ UNCHANGED <<wpc, debounceTimer, armed, fired, closures>>

\* Elapse gone wrong: the timer goes on like a ticker after it has fired
ElapseTicks(t) ==
    /\ t \in armed
    /\ armed' = armed
    /\ fired' = fired \cup {t}
    /\ UNCHANGED <<wpc, debounceTimer, closures>>

\* 500 ms after a timer was made and not stopped, its function starts
Elapse(t) ==
    /\ t \in armed
    /\ armed' = armed \ {t}
    /\ fired' = fired \cup {t}
    /\ UNCHANGED <<wpc, debounceTimer, closures>>

\* The timer's function: the message of its event, fs.BroadcastChange
Callback(t, b) ==
    /\ t \in fired
    /\ fired' = fired \ {t}
    /\ BroadcastStart(b, Message(closures[t]))
    /\ UNCHANGED <<wpc, debounceTimer, armed, closures>>

NameA == <<"srv", "index.html">>
NameB == <<"srv", "css", "site.css">>
NameDir == <<"srv", "img">>

\* Events of each kind, one with two bits set, on two files in different
\* directories, and a created directory
WatchEvents ==
    {Event(NameA, {"Write"}, FALSE),
     Event(NameA, {"Create"}, FALSE),
     Event(NameB, {"Remove"}, FALSE),
     Event(NameB, {"Rename"}, FALSE),
     Event(NameB, {"Chmod"}, FALSE),
     Event(NameA, {"Remove", "Rename"}, FALSE),
     Event(NameDir, {"Create"}, TRUE)}

\* The events received so far
Received == Len(closures) + (IF wpc.pc = "walk" THEN 1 ELSE 0)

\* The timer made for the event before this one has fired already
AfterWindow == debounceTimer # 0 /\ debounceTimer \notin armed

otherThanWatch == <<coreVars, mon, portVars, lockVars, clients, queue, conn, castLog, cycles, adminVars, streamVars, bootVars, pmVars, heapVars, dirVars>>

NextWatch ==
    \/ \E event \in WatchEvents :
            /\ Received < MaxEvents
            /\ HandleEvent(event)
            /\ late' = (late \/ AfterWindow)
            /\ UNCHANGED <<issued, hubMu, bc, otherThanWatch>>
    \/ \E event \in WatchEvents :
            /\ Received < MaxEvents
            /\ BeginWalk(event)
            /\ late' = (late \/ AfterWindow)
            /\ UNCHANGED <<issued, hubMu, bc, otherThanWatch>>
    \/ EndWalk /\ UNCHANGED <<issued, late, hubMu, bc, otherThanWatch>>
    \/ WatcherError /\ UNCHANGED <<issued, late, hubMu, bc, otherThanWatch>>
    \/ \E t \in armed : Elapse(t) /\ UNCHANGED <<issued, late, hubMu, bc, otherThanWatch>>
    \/ \E t \in fired, b \in 1..NCast :
            /\ Callback(t, b)
            /\ issued' = Append(issued, Message(closures[t]))
            /\ UNCHANGED <<late, otherThanWatch>>
    \/ \E b \in 1..NCast :
            /\ BroadcastEnd(b)
            /\ UNCHANGED <<watchVars, castLog, cycles, otherThanHub>>

SpecWatch == InitStore /\ [][NextWatch]_vars

----------------------------------------------------------------------------
(* The timer's function on every event: the loop has received one event    *)
(* and made its timer; the timer fires and its function broadcasts.        *)

\* fsnotify.Op: every set of the five bits
Ops == SUBSET {"Create", "Write", "Remove", "Rename", "Chmod"}

KindEvents == {Event(name, op, FALSE) : name \in {NameA, NameB}, op \in Ops}

InitKinds ==
    /\ rules = << >>
    /\ InitProxyCommon
    /\ mon = MonOff
    /\ InitPortsOnly
    /\ InitLockOnly
    /\ InitHubOnly
    /\ InitStreams
    /\ InitPM
    /\ InitHeap
    /\ InitDir
    /\ wpc = [pc |-> "select", event |-> NoEvent]
    /\ tree = << >>
    /\ walkAt = 1
    /\ watchSet = {}
    /\ watchRoot = ServingDir
    /\ \E event \in KindEvents : closures = <<event>>
    /\ debounceTimer = 1
    /\ armed = {1}
    /\ fired = {}
    /\ issued = << >>
    /\ late = FALSE

NextKinds ==
    \/ \E t \in armed : Elapse(t) /\ UNCHANGED <<issued, late, hubMu, bc, otherThanWatch>>
    \/ \E t \in fired, b \in 1..NCast :
            /\ Callback(t, b)
            /\ issued' = Append(issued, Message(closures[t]))
            /\ UNCHANGED <<late, otherThanWatch>>
    \/ \E b \in 1..NCast :
            /\ BroadcastEnd(b)
            /\ UNCHANGED <<watchVars, castLog, cycles, otherThanHub>>

SpecKinds == InitKinds /\ [][NextKinds]_vars

----------------------------------------------------------------------------
(* package fileserver: the start of watchFiles.  NewFileServer starts it   *)
(* as a goroutine; it makes the watcher, walks the tree under the serving  *)
(* directory and enters its loop, or returns at the first error.           *)

\* One name that filepath.Walk meets
Entry(path, isDir) == [path |-> path, isDir |-> isDir]

DirSrv == <<"srv">>
DirCss == <<"srv", "css">>

\* Trees under the serving directory, each in the order filepath.Walk
\* visits it: a directory before what it holds, names in lexical order
TreeFlat == <<Entry(DirSrv, TRUE), Entry(NameA, FALSE)>>
TreeDeep == <<Entry(DirSrv, TRUE), Entry(DirCss, TRUE), Entry(NameB, FALSE),
              Entry(NameDir, TRUE), Entry(NameA, FALSE)>>
Trees == {TreeFlat, TreeDeep}

\* The directories of a tree
Dirs(t) == {t[k].path : k \in {j \in DOMAIN t : t[j].isDir}}

\* What befalls one visit: nothing; Walk cannot stat the name and hands the
\* function its error; watcher.Add fails; Walk cannot list the directory it
\* has just handed over and calls the function again with that error
Outcomes == {"ok", "lstat", "add", "readdir"}

\* Aborts gone wrong: the error is logged and the walk goes on
AbortsNever(outcome) == FALSE

\* The walk function returns every error it meets, and Walk stops at it
Aborts(outcome) == outcome # "ok"

\* watchFiles returns; the deferred watcher.Close() drops the watches
Ended ==
    /\ wpc' = [pc |-> "ended", event |-> NoEvent]
    /\ watchSet' = {}

\* fsnotify.NewWatcher()
NewWatcher(ok) ==
    /\ wpc.pc = "start"
    /\ IF ok
       THEN wpc' = [wpc EXCEPT !.pc = "abs"] /\ UNCHANGED watchSet
       ELSE Ended
    /\ UNCHANGED <<tree, walkAt, watchRoot>>

\* dir := fs.config.GetFileServerDir(); filepath.Abs leaves an absolute,
\* clean path as it is, and the serving directories here are such paths
RootOf(dir) == dir

\* fs.config.GetFileServerDir() and filepath.Abs
AbsDir(ok) ==
    /\ wpc.pc = "abs"
    /\ IF ok
       THEN /\ wpc' = [wpc EXCEPT !.pc = "startup"]
            /\ watchRoot' = RootOf(fileServerDir)
            /\ UNCHANGED watchSet
       ELSE Ended /\ UNCHANGED watchRoot
    /\ UNCHANGED <<tree, walkAt>>

\* addDirRecursive: the walk function at one name
Visit(outcome) ==
    /\ wpc.pc = "startup"
    /\ walkAt <= Len(tree)
    /\ outcome = "readdir" => tree[walkAt].isDir
    /\ LET e == tree[walkAt]
           added == IF e.isDir /\ outcome \in {"ok", "readdir"}
                    THEN watchSet \cup {e.path} ELSE watchSet
       IN  IF Aborts(outcome)
           THEN Ended /\ UNCHANGED walkAt
           ELSE /\ watchSet' = added
                /\ walkAt' = walkAt + 1
                /\ UNCHANGED wpc
    /\ UNCHANGED <<tree, watchRoot>>

\* addDirRecursive has returned nil: the loop begins
EnterLoop ==
    /\ wpc.pc = "startup"
    /\ walkAt > Len(tree)
    /\ wpc' = [wpc EXCEPT !.pc = "select"]
    /\ UNCHANGED <<tree, walkAt, watchSet, watchRoot>>

\* The events of the start: a file is written
StartEvents == {Event(NameA, {"Write"}, FALSE)}

otherThanBoot == <<coreVars, mon, portVars, lockVars, hubVars, debounceTimer,
                   armed, fired, closures, issued, late, adminVars, streamVars,
                   pmVars, heapVars, dirVars>>

InitStartup ==
    /\ rules = << >>
    /\ InitProxyCommon
    /\ mon = MonOff
    /\ InitPortsOnly
    /\ InitLockOnly
    /\ InitHubOnly
    /\ InitWatchRest
    /\ wpc = [pc |-> "start", event |-> NoEvent]
    /\ tree \in Trees
    /\ walkAt = 1
    /\ watchSet = {}
    /\ watchRoot = << >>

\* The watcher from its start, beside the hub's connections
NextStartup ==
    \/ \E ok \in BOOLEAN : NewWatcher(ok) /\ UNCHANGED otherThanBoot
    \/ \E ok \in BOOLEAN : AbsDir(ok) /\ UNCHANGED otherThanBoot
    \/ \E outcome \in Outcomes : Visit(outcome) /\ UNCHANGED otherThanBoot
    \/ EnterLoop /\ UNCHANGED otherThanBoot
    \/ \E event \in StartEvents :
            /\ Received < MaxEvents
            /\ HandleEvent(event)
            /\ late' = (late \/ AfterWindow)
            /\ UNCHANGED <<issued, hubMu, bc, otherThanWatch>>
    \/ \E t \in armed : Elapse(t) /\ UNCHANGED <<issued, late, hubMu, bc, otherThanWatch>>
    \/ \E t \in fired, b \in 1..NCast :
            /\ Callback(t, b)
            /\ issued' = Append(issued, Message(closures[t]))
            /\ UNCHANGED <<late, otherThanWatch>>
    \/ \E b \in 1..NCast : LoopSend(b)
    \/ \E b \in 1..NCast : StreamCastEnd(b)
    \/ \E i \in 1..NStream : Subscribe(i) /\ StreamQuiet
    \/ \E i \in 1..NStream : Confirm(i) /\ StreamQuiet
    \/ \E i \in 1..NStream : RecvWrite(i) /\ StreamQuiet

SpecStartup == InitStartup /\ [][NextStartup]_vars

----------------------------------------------------------------------------
(* The serving directory: the watcher reads it once, the file server at    *)
(* every request, and an import of settings replaces it.                   *)

\* "/__watcher.js"
PWatcherJS == <<"/", "_", "_", "w", "a", "t", "c", "h", "e", "r", ".", "j", "s">>

\* The directories an imported document can carry: the one the process
\* started in, another one, and none (the field left out)
ImportDirs == {ServingDir, <<"tmp">>, << >>}

\* Handler.importSettings with Config.ImportSettings: c.settings is the
\* decoded document, the serving directory with the rules
ImportDir(list, dir) ==
    /\ importSettings(list)
    /\ fileServerDir' = dir
    /\ UNCHANGED servedFrom

\* FileServer.ServeHTTP, called by the "/" handler when no rule matches:
\* the watcher's script is answered at once, any other path is looked up
\* under the directory the store holds now
FileServerServeHTTP(path) ==
    /\ ServeMux(path) = "root"
    /\ ~RootMatches(rules, path)
    /\ servedFrom' = IF path = PWatcherJS THEN servedFrom ELSE fileServerDir
    /\ UNCHANGED fileServerDir

ServePaths == {PathOther, PWatcherJS}

otherThanServe == <<mon, portVars, lockVars, hubVars, watchVars, streamVars, pmVars, heapVars>>

NextServe ==
    \/ \E ok \in BOOLEAN : NewWatcher(ok) /\ UNCHANGED otherThanBoot
    \/ \E ok \in BOOLEAN : AbsDir(ok) /\ UNCHANGED otherThanBoot
    \/ \E outcome \in Outcomes : Visit(outcome) /\ UNCHANGED otherThanBoot
    \/ EnterLoop /\ UNCHANGED otherThanBoot
    \/ \E list \in ImportLists, dir \in ImportDirs :
            ImportDir(list, dir) /\ UNCHANGED <<bootVars, otherThanServe>>
    \/ RefreshProxies /\ UNCHANGED <<bootVars, dirVars, otherThanServe>>
    \/ \E path \in ServePaths :
            FileServerServeHTTP(path) /\ UNCHANGED <<coreVars, adminVars, bootVars, otherThanServe>>

SpecServe == InitStartup /\ [][NextServe]_vars

----------------------------------------------------------------------------
(* package fileserver: the loop of watchFiles with its watch set.  The     *)
(* watcher hands over the events of the directories it watches; for a      *)
(* created directory the loop walks what lies under it, one name per step. *)

NameSub == <<"srv", "img", "thumbs">>
NameNew == <<"srv", "img", "x.png">>

\* What may lie under the created directory when the loop walks it, in the
\* order filepath.Walk visits it
GrownFlat == <<Entry(NameDir, TRUE)>>
GrownDeep == <<Entry(NameDir, TRUE), Entry(NameSub, TRUE), Entry(NameNew, FALSE)>>
Grown == {GrownFlat, GrownDeep}

\* filepath.Dir of a path of two or more elements
Parent(name) == SubSeq(name, 1, Len(name) - 1)

\* fsnotify reports what happens in a watched directory
Reported(event) == Parent(event.Name) \in watchSet

\* case event := <-watcher.Events, for an event that adds no directory
GrowReceive(event) ==
    /\ Reported(event)
    /\ HandleEvent(event)
    /\ UNCHANGED <<tree, walkAt, watchSet, watchRoot>>

\* case event := <-watcher.Events, for a created directory: os.Stat, and
\* addDirRecursive begins with what lies under the name
GrowBegin(event, sub) ==
    /\ Reported(event)
    /\ BeginWalk(event)
    /\ sub[1].path = event.Name
    /\ tree' = sub
    /\ walkAt' = 1
    /\ UNCHANGED <<watchSet, watchRoot>>

\* LogAddError gone wrong: watchFiles returns on the error
LogAddErrorReturns(w) == [pc |-> "ended", event |-> NoEvent]

\* if err != nil { log.Printf("Error adding new directory to watch") }
LogAddError(w) == [w EXCEPT !.pc = "walkerr"]

\* addDirRecursive in the loop: the walk function at one name.  A directory
\* is added before Walk lists it; at the first error the walk is over.
GrowVisit(outcome) ==
    /\ wpc.pc = "walk"
    /\ walkAt <= Len(tree)
    /\ outcome = "readdir" => tree[walkAt].isDir
    /\ LET e == tree[walkAt]
       IN  watchSet' = IF e.isDir /\ outcome \in {"ok", "readdir"}
                       THEN watchSet \cup {e.path} ELSE watchSet
    /\ IF Aborts(outcome)
       THEN wpc' = LogAddError(wpc) /\ UNCHANGED walkAt
       ELSE walkAt' = walkAt + 1 /\ UNCHANGED wpc
    /\ UNCHANGED <<tree, watchRoot, debounceTimer, armed, fired, closures>>

\* addDirRecursive has returned, its error if any is logged: the rest of
\* the iteration
GrowEnd ==
    /\ \/ wpc.pc = "walk" /\ walkAt > Len(tree)
       \/ wpc.pc = "walkerr"
    /\ Reset(wpc.event)
    /\ wpc' = [pc |-> "select", event |-> NoEvent]
    /\ UNCHANGED <<fired, tree, walkAt, watchSet, watchRoot>>

\* case err := <-watcher.Errors: logged
GrowError == WatcherError /\ UNCHANGED <<tree, walkAt, watchSet, watchRoot>>

\* A receive finds watcher.Events or watcher.Errors closed: return
Closed(channel) ==
    /\ wpc.pc = "select"
    /\ channel \in {"Events", "Errors"}
    /\ Ended
    /\ UNCHANGED <<tree, walkAt, watchRoot, debounceTimer, armed, fired, closures>>

GrowEvents ==
    {Event(NameA, {"Write"}, FALSE),
     Event(NameDir, {"Create"}, TRUE),
     Event(NameNew, {"Write"}, FALSE)}

otherThanGrow == <<coreVars, mon, portVars, lockVars, clients, queue, conn,
                   castLog, cycles, adminVars, streamVars, pmVars, heapVars, dirVars>>

\* The loop has been entered with the serving directory watched
InitGrow ==
    /\ rules = << >>
    /\ InitProxyCommon
    /\ mon = MonOff
    /\ InitPortsOnly
    /\ InitLockOnly
    /\ InitHubOnly
    /\ InitWatchRest
    /\ wpc = [pc |-> "select", event |-> NoEvent]
    /\ tree = TreeFlat
    /\ walkAt = Len(TreeFlat) + 1
    /\ watchSet = Dirs(TreeFlat)
    /\ watchRoot = ServingDir

NextGrow ==
    \/ \E event \in GrowEvents :
            /\ Received < MaxEvents
            /\ GrowReceive(event)
            /\ late' = (late \/ AfterWindow)
            /\ UNCHANGED <<issued, hubMu, bc, otherThanGrow>>
    \/ \E event \in GrowEvents, sub \in Grown :
            /\ Received < MaxEvents
            /\ GrowBegin(event, sub)
            /\ late' = (late \/ AfterWindow)
            /\ UNCHANGED <<issued, hubMu, bc, otherThanGrow>>
    \/ \E outcome \in Outcomes :
            GrowVisit(outcome) /\ UNCHANGED <<issued, late, hubMu, bc, otherThanGrow>>
    \/ GrowEnd /\ UNCHANGED <<issued, late, hubMu, bc, otherThanGrow>>
    \/ GrowError /\ UNCHANGED <<issued, late, hubMu, bc, otherThanGrow>>
    \/ \E channel \in {"Events", "Errors"} :
            Closed(channel) /\ UNCHANGED <<issued, late, hubMu, bc, otherThanGrow>>
    \/ \E t \in armed : Elapse(t) /\ UNCHANGED <<issued, late, hubMu, bc, bootVars, otherThanGrow>>
    \/ \E t \in fired, b \in 1..NCast :
            /\ Callback(t, b)
            /\ issued' = Append(issued, Message(closures[t]))
            /\ UNCHANGED <<late, bootVars, otherThanGrow>>
    \/ \E b \in 1..NCast :
            /\ BroadcastEnd(b)
            /\ UNCHANGED <<watchVars, castLog, cycles, otherThanHub>>

SpecGrow == InitGrow /\ [][NextGrow]_vars

\* The rest of an iteration, as a step of the whole state
GrowEndStep == GrowEnd /\ UNCHANGED <<issued, late, hubMu, bc, otherThanGrow>>

\* The goroutine of watchFiles, back from addDirRecursive, runs in the end
SpecGrowFair == SpecGrow /\ WF_vars(GrowEndStep)

----------------------------------------------------------------------------
(* Claims about dispatch *)

\* The index of the first rule of the list whose path prefix is set and is
\* a prefix of the path, 0 if there is none
FirstPrefixRule(list, path) ==
    LET hit(k) == /\ list[k].PathPrefix # Empty
                  /\ Len(list[k].PathPrefix) <= Len(path)
                  /\ \A n \in 1..Len(list[k].PathPrefix) :
                        path[n] = list[k].PathPrefix[n]
    IN  IF \E k \in 1..Len(list) : hit(k)
        THEN CHOOSE k \in 1..Len(list) :
                hit(k) /\ \A j \in 1..(k - 1) : ~hit(j)
        ELSE 0

Selected(r) ==
    \/ r.pc = "matched"
    \/ r.pc = "done" /\ r.out \in {"forwarded", "500"}

\* C1: a request at the shared endpoint is forwarded using the first rule of
\* the list whose path prefix is a prefix of the request path, whatever
\* longer prefix a later rule has, and no rule is selected when no rule's
\* prefix is a prefix of the path.  (The code breaks this when a port-only
\* rule precedes the matching path rule.)
C1_FirstMatchingRuleWins ==
    \A i \in 1..NReq :
        LET r == req[i]
            first == FirstPrefixRule(rules, r.path)
        IN  /\ Selected(r) => first # 0 /\ r.sel = rules[first]
            /\ r.pc = "done" /\ first = 0 => r.out = "file"
            /\ r.pc = "done" /\ first # 0 => r.out # "file"

PathUsers == <<"/", "u", "s", "e", "r", "s">>

----------------------------------------------------------------------------
(* Claims about the cache *)

\* C2: after an add, update or delete and its RefreshProxies, with no
\* request in flight meanwhile, the very next request is forwarded by an
\* instance built from the store's current version of the rule it matched:
\* to that rule's current target, with that rule's current strip flag.
C2_NextRequestUsesNewRule ==
    mon.phase = "running" /\ req[mon.req].pc = "done" =>
        LET r == req[mon.req]
        IN  r.out = "forwarded" =>
                \E k \in 1..Len(rules) :
                    /\ rules[k] = r.sel
                    /\ HasPrefix(r.path, rules[k].PathPrefix)
                    /\ r.target = rules[k].TargetURL
                    /\ rules[k].StripPrefix =>
                            \/ r.fwd # Empty /\ rules[k].PathPrefix \o r.fwd = r.path
                            \/ r.fwd = Root /\ rules[k].PathPrefix = r.path
                    /\ ~rules[k].StripPrefix => r.fwd = r.path

\* C2 witness: the first request after an update of rule a and its refresh
\* has been forwarded to the new target
C2_Witness ==
    /\ mon.phase = "running"
    /\ mon.kind = "update"
    /\ req[mon.req].pc = "done"
    /\ req[mon.req].out = "forwarded"
    /\ req[mon.req].sel.ID = "a"
    /\ req[mon.req].target = TargetY
    /\ req[mon.req].sel.StripPrefix

\* C3: once RefreshProxies has returned and no admin operation is under
\* way, every cached instance was built from the target the store holds for
\* its identifier, whatever requests were in flight during the update or
\* delete.  (The code breaks this: a request that took its rule before the
\* update caches an instance for the old target after the refresh.)
C3_NoStaleInstance ==
    pendingRefresh = 0 =>
        \A id \in DOMAIN proxies :
            \E k \in 1..Len(rules) :
                /\ rules[k].ID = id
                /\ rules[k].TargetURL = proxies[id].target

----------------------------------------------------------------------------
(* Claims about port listeners *)

\* C9: once a rule carrying a port has been added through the admin add
\* operation, at any time, a listener on that port is started, and every
\* request to that listener is forwarded to the same path on the rule's
\* target.  Stated at the point where every listener the code will ever
\* start has been started.  (The code starts listeners only for the rules
\* present when startPortBasedProxies runs.)
C9_PortRuleGetsListener ==
    /\ portsPc = "done" /\ spawned = {} /\ pendingRefresh = 0 =>
            \A k \in 1..Len(rules) :
                rules[k].Port > 0 => rules[k].Port \in DOMAIN listeners
    /\ portResp.out # "none" =>
            /\ portResp.out = "forwarded"
            /\ portResp.fwd = portResp.path

----------------------------------------------------------------------------
(* Claims about the store *)

\* C5: under any interleaving of the store's methods, what GetProxyRules
\* returns is the rule list as it stood after some completed mutation, one
\* no older than the last mutation completed when the call began: no entry
\* is missing, duplicated or half-written.
C5_NoTornRead ==
    \A p \in 1..NCalls :
        sp[p].pc = "ret" /\ sp[p].op = "get" =>
            \E v \in readLo[p]..Len(hist) : sp[p].buf = hist[v]

\* C5 witness: a call of GetProxyRules that began before a mutation
\* completed returns the list of two rules that mutation left
C5_Witness ==
    \E p \in 1..NCalls :
        /\ sp[p].pc = "ret"
        /\ sp[p].op = "get"
        /\ readLo[p] < Len(hist)
        /\ Len(sp[p].buf) = 2
        /\ sp[p].buf = hist[Len(hist)]

----------------------------------------------------------------------------
(* Claims about the change hub *)

\* C4: an iteration of BroadcastChange appends the message to a queue with
\* room and leaves a full queue (10 pending messages) as it is, touching no
\* other queue; and a call that still has subscribers to visit can always
\* take its next iteration, so it returns without waiting for anyone.
C4_BroadcastSkipsFull ==
    /\ [][\A b \in 1..NCast, c \in 1..NConn :
            (bc[b].pc = "range" /\ c \in bc[b].todo /\ bc'[b].todo = bc[b].todo \ {c}) =>
                /\ queue'[c] = IF Len(queue[c]) = ChanCap THEN queue[c]
                               ELSE Append(queue[c], bc[b].msg)
                /\ \A d \in 1..NConn \ {c} : queue'[d] = queue[d]]_vars
    /\ [](\A b \in 1..NCast, c \in 1..NConn :
            (bc[b].pc = "range" /\ c \in bc[b].todo) => ENABLED BroadcastSend(b, c))

\* C4 witness: a call of BroadcastChange has visited its two subscribers,
\* skipped the one whose queue holds 10 messages and enqueued on the other
C4_Witness ==
    \E b \in 1..NCast, c, d \in clients :
        /\ bc[b].pc = "range"
        /\ bc[b].todo = {}
        /\ \A a \in 1..NCast \ {b} : bc[a].pc = "idle"
        /\ castLog.skipped
        /\ Len(queue[c]) = ChanCap
        /\ castLog.sent
        /\ Len(queue[d]) < ChanCap
        /\ queue[d] # << >>
        /\ queue[d][Len(queue[d])] = bc[b].msg

\* The invocations of HandleSSE that have registered and not yet returned
Registered == {i \in 1..NConn : conn[i].pc = "loop"}

\* C7: the registry holds exactly the channels of the invocations of
\* HandleSSE that have registered and not yet returned; so once every
\* connection is over the registry is as empty as before the first.
C7_RegistryExact ==
    /\ clients = Registered
    /\ (\A i \in 1..NConn : conn[i].pc = "idle") => clients = {}

\* C7 witness: a subscription has come and gone and nothing is left
C7_Witness ==
    /\ cycles
    /\ \A i \in 1..NConn : conn[i].pc = "idle"
    /\ clients = {}

\* C10: the stream request of a page that loaded the served script is
\* handled by HandleSSE, which gives the page a place in the registry.
C10_ScriptSubscribes ==
    \A i \in 1..NConn :
        conn[i].path = WatcherStreamURL /\ conn[i].pc # "idle" =>
            conn[i].handler = "sse"

----------------------------------------------------------------------------
(* Claims about the watcher *)

\* Every event so far was on a file
OnlyFiles == wpc.pc = "select" /\ \A k \in 1..Len(closures) : ~closures[k].IsDir

\* C6: while every event on a file has come before the timer made for the
\* event before it fired, at most one BroadcastChange has been issued; and
\* once the last timer has fired and its function has run, exactly one has,
\* with the base name of the last event's path, a space and that event's kind.
C6_OneCoalescedBroadcast ==
    (OnlyFiles /\ ~late /\ closures # << >>) =>
        /\ Len(issued) <= 1
        /\ (armed = {} /\ fired = {}) =>
                LET last == closures[Len(closures)]
                IN  issued = <<last.Name[Len(last.Name)] \o " " \o
                        (CASE "Create" \in last.Op -> "created"
                           [] "Create" \notin last.Op /\ "Remove" \in last.Op -> "removed"
                           [] {"Create", "Remove"} \cap last.Op = {} /\ "Rename" \in last.Op
                                -> "renamed"
                           [] OTHER -> "modified")>>

\* C6 witness: three events on two files, each within the window of the one
\* before, then quiet: the one message is that of the last, a removal
C6_Witness ==
    /\ OnlyFiles
    /\ ~late
    /\ Len(closures) = 3
    /\ closures[1].Name # closures[3].Name
    /\ armed = {}
    /\ fired = {}
    /\ issued = <<"site.css removed">>

----------------------------------------------------------------------------
(* Claims about the administrative handlers *)

\* No stored rule has the identifier
Unknown(id) == \A k \in 1..Len(rules) : rules[k].ID # id

\* C11: for an identifier no stored rule has, UpdateProxyRule and
\* DeleteProxyRule return false and the list they leave is the list they
\* found; updateProxy (with a valid body) and deleteProxy then answer 404 and
\* change neither the store nor the cache nor the refreshes owed.
C11_UnknownIDIsNotFound ==
    [][\A id \in AdminIDs : Unknown(id) =>
        /\ DeleteProxyRule(rules, id) = [found |-> FALSE, list |-> rules]
        /\ \A body \in AdminBodies :
               UpdateProxyRule(rules, id, body) = [found |-> FALSE, list |-> rules]
        /\ \/ /\ adminOut' = "404"
              /\ UNCHANGED <<rules, proxies, pendingRefresh, adminPend>>
           \/ req' # req
           \/ ~(\/ deleteProxy(id)
                \/ \E body \in AdminBodies : Valid(body) /\ updateProxy(id, body))]_vars

\* C11 witness: a request for an unknown identifier has been answered 404
\* while the store holds a rule and the cache an instance
C11_Witness ==
    /\ adminOut = "404"
    /\ rules # << >>
    /\ \E id \in AdminIDs : Unknown(id)
    /\ proxies # NoProxies
    /\ pendingRefresh = 0

\* C12: when the rule a request was matched to has no cached instance and a
\* target that does not parse, the request is answered 500 and the cache is
\* left as it was, with no entry for the rule's identifier; so each later
\* request for the rule finds no entry and constructs again.
C12_FailedConstructionNotCached ==
    [][\A i \in 1..NReq :
        (/\ req[i].pc = "matched"
         /\ req'[i].pc = "done"
         /\ req[i].sel.ID \notin DOMAIN proxies
         /\ ~ParseOK(req[i].sel.TargetURL))
        => /\ req'[i].out = "500"
           /\ proxies' = proxies
           /\ req[i].sel.ID \notin DOMAIN proxies']_vars

\* C12 witness: a request has been answered 500 for a rule whose target does
\* not parse, and the cache still holds another rule's instance and none
\* for this rule
C12_Witness ==
    \E i \in 1..NReq :
        /\ req[i].pc = "done"
        /\ req[i].out = "500"
        /\ ~ParseOK(req[i].sel.TargetURL)
        /\ proxies # NoProxies
        /\ req[i].sel.ID \notin DOMAIN proxies

\* The statuses of success
Success == {"200", "201", "204"}

\* C13: the store changes only in a step of an admin operation that then
\* owes a refresh and has not answered yet; a success status is written only
\* in the step that settles one owed refresh, by emptying the cache, the
\* store as the mutation left it; as many refreshes are owed as operations
\* have mutated and not answered; a step that answers 400 or 404 changes
\* neither the store nor the cache nor the refreshes owed; and the cache is
\* emptied only by a refresh that was owed.
C13_RefreshBeforeSuccess ==
       [][/\ pendingRefresh = Len(adminPend)
          /\ pendingRefresh' = Len(adminPend')
          /\ rules' # rules =>
                /\ Len(adminPend') = Len(adminPend) + 1
                /\ adminOut' = adminOut
          /\ (Len(adminPend') < Len(adminPend) \/
              (adminOut' # adminOut /\ adminOut' \in Success)) =>
                /\ Len(adminPend') = Len(adminPend) - 1
                /\ adminOut' \in Success
                /\ proxies' = NoProxies
                /\ rules' = rules
          /\ (adminOut' # adminOut /\ adminOut' \in {"400", "404"}) =>
                UNCHANGED <<rules, proxies, adminPend>>
          /\ (proxies' = NoProxies /\ proxies # NoProxies) =>
                Len(adminPend') = Len(adminPend) - 1]_vars

\* C13 witness: an update has succeeded: the rule has its new target, the
\* update was the only operation under way, the cache is empty and 200 is
\* the answer
C13_Witness ==
    /\ mon.phase = "armed"
    /\ mon.kind = "update"
    /\ adminOut = "200"
    /\ adminPend = << >>
    /\ rules = <<Rule("a", PApi, 0, TargetY, TRUE)>>
    /\ proxies = NoProxies

\* C14: the rules in the store have pairwise distinct identifiers.
C14_DistinctIdentifiers ==
    \A j, k \in 1..Len(rules) : j # k => rules[j].ID # rules[k].ID

\* C19: a request the root handler handed to the proxy router, a rule's
\* prefix having matched its path, is not answered with the router's 404.
C19_MatchedNeverNotFound ==
    \A i \in 1..NReq : req[i].out # "404"

------------------------------------------------------------------------------
(* Claims about the streams *)

\* C15: a call of BroadcastChange that holds the read lock returns, whatever
\* the connections do: it visits those of the registry it found, once each,
\* and waits for none.
C15_BroadcastTerminates ==
    \A b \in 1..NCast : bc[b].pc = "range" ~> bc[b].pc = "idle"

\* C15 witness: a broadcast in its range comes to a subscriber whose queue is
\* full and whose handler, the client gone, reads no more
C15_Witness ==
    \E b \in 1..NCast, i \in 1..NStream :
        /\ bc[b].pc = "range"
        /\ i \in bc[b].todo
        /\ Len(queue[i]) = ChanCap
        /\ strm[i].pc = "leaving"
        /\ strm[i].done

\* a is b with some of its elements left out
RECURSIVE IsSubseq(_, _)
IsSubseq(a, b) ==
    IF a = << >> THEN TRUE
    ELSE IF b = << >> THEN FALSE
    ELSE IF Head(a) = Head(b) THEN IsSubseq(Tail(a), Tail(b))
    ELSE IsSubseq(a, Tail(b))

\* No element of the sequence occurs twice
NoDup(q) == \A j, k \in 1..Len(q) : j # k => q[j] # q[k]

\* C16: what a connection has written as data is what was sent on its
\* channel, in the order of sending, with messages left out at most, and no
\* call of BroadcastChange has put two messages on one channel; more, the
\* messages sent and not yet written are those the channel holds.
C16_FifoAtMostOnce ==
    \A i \in 1..NStream :
        /\ IsSubseq(wrote[i], enq[i])
        /\ NoDup(enq[i])
        /\ enq[i] = wrote[i] \o queue[i]

\* C16 witness: a connection that came after the first broadcast has
\* written the second message and holds the third
C16_Witness ==
    \E i \in 1..NStream : wrote[i] = <<2>> /\ queue[i] = <<3>>

\* C17: nothing is written on a connection before its confirmation: the
\* first write is the confirmation, and no data is written while the
\* handler has yet to write it.
C17_ConfirmationFirst ==
    \A i \in 1..NStream :
        /\ strm[i].first \in {"none", "confirm"}
        /\ strm[i].pc = "confirm" => wrote[i] = << >>

\* C17 witness: two messages were sent to a connection between its
\* registration and its confirmation, and it has written nothing yet
C17_Witness ==
    \E i \in 1..NStream :
        /\ strm[i].pc = "confirm"
        /\ strm[i].first = "none"
        /\ queue[i] = <<1, 2>>

\* C18: a handler in its loop whose client has gone away leaves the loop
\* and its channel leaves the registry.
C18_DisconnectExits ==
    \A i \in 1..NStream :
        (strm[i].pc = "loop" /\ strm[i].done)
            ~> (strm[i].pc = "idle" /\ i \notin clients)

\* C18 witness: the client of a connection is gone, a message waits in its
\* channel and a broadcast holds the read lock
C18_Witness ==
    \E i \in 1..NStream :
        /\ strm[i].pc = "loop"
        /\ strm[i].done
        /\ queue[i] # << >>
        /\ hubMu.readers # {}

------------------------------------------------------------------------------
(* Claims about the start of the watcher *)

\* No event has been taken from the watcher and no timer made
NothingWatched ==
    /\ closures = << >>
    /\ issued = << >>
    /\ armed = {}
    /\ fired = {}
    /\ debounceTimer = 0

\* The loop runs with every directory of the tree watched; before the loop
\* and after a failed start nothing has been received or broadcast
StartedWhole ==
    /\ wpc.pc = "select" => watchSet = Dirs(tree)
    /\ wpc.pc \in {"start", "abs", "startup", "ended"} => NothingWatched

\* C20: the loop is entered only with every directory of the tree, the root
\* among them, in the watch set; a failure of NewWatcher, of Abs, of the
\* walk or of one watcher.Add ends watchFiles at once; ended, it does
\* nothing more, so no event is received and nothing is broadcast; and a
\* connection of the hub goes on as before.
C20_StartupRegistersOrEnds ==
    [][/\ StartedWhole
       /\ StartedWhole'
       /\ (\/ NewWatcher(FALSE)
           \/ AbsDir(FALSE)
           \/ \E outcome \in Outcomes \ {"ok"} : Visit(outcome))
          => wpc'.pc = "ended"
       /\ wpc.pc = "ended" =>
            /\ UNCHANGED <<watchVars, bootVars, pmVars, heapVars, dirVars>>
            /\ \A i \in 1..NStream :
                  strm[i].pc = "confirm" => ENABLED (Confirm(i) /\ StreamQuiet)]_vars

\* C20 witness: in a tree of three directories the walk has failed at the
\* third, watchFiles has ended, and a connection made since is in its loop
C20_Witness ==
    /\ wpc.pc = "ended"
    /\ tree = TreeDeep
    /\ walkAt = 4
    /\ \E i \in 1..NStream : strm[i].pc = "loop"

------------------------------------------------------------------------------
(* Claims about the watch loop *)

\* The kind the message is to name, bit by bit
KindOf(op) ==
    CASE "Create" \in op -> "created"
      [] "Create" \notin op /\ "Remove" \in op -> "removed"
      [] {"Create", "Remove"} \cap op = {} /\ "Rename" \in op -> "renamed"
      [] {"Create", "Remove", "Rename"} \cap op = {} -> "modified"

\* C23: the message a timer's function broadcasts names the kind of its
\* event: created if the create bit is set, else removed if the remove bit
\* is, else renamed if the rename bit is, else modified; and the message a
\* call of BroadcastChange carries is that one.
C23_KindOfEveryMask ==
    /\ \A k \in 1..Len(issued) :
          issued[k] = Base(closures[k].Name) \o " " \o KindOf(closures[k].Op)
    /\ \A b \in 1..NCast :
          bc[b].pc = "range" => bc[b].msg = issued[Len(issued)]

\* C23 witness: an event with the remove, rename and chmod bits has been
\* broadcast
C23_Witness ==
    /\ issued # << >>
    /\ closures[1].Op = {"Remove", "Rename", "Chmod"}

------------------------------------------------------------------------------
(* Claims about the methods of Config *)

\* The list before the method that holds the lock began
Before == hist[Len(hist)]

\* The method of call p has run to its deferred Unlock
AtReturn(p, op) == sp[p].pc = "unlock" /\ sp[p].op = op

\* The position of the first rule of the list with the ID
IsFirstWith(list, id, k) ==
    /\ k \in 1..Len(list)
    /\ list[k].ID = id
    /\ \A j \in 1..(k - 1) : list[j].ID # id

\* C24: when UpdateProxyRule(id, rule) returns, the first stored rule with
\* the ID holds the fields of rule and the ID id, at its old position; the
\* length and every other rule are as before; a list without the ID is
\* as before.
C24_UpdateInPlace ==
    \A p \in 1..NCalls : AtReturn(p, "update") =>
        /\ Len(rules) = Len(Before)
        /\ \A k \in 1..Len(Before) :
              rules[k] = IF IsFirstWith(Before, sp[p].id, k)
                         THEN Rule(sp[p].id, sp[p].rule.PathPrefix, sp[p].rule.Port,
                                   sp[p].rule.TargetURL, sp[p].rule.StripPrefix)
                         ELSE Before[k]

\* C24 witness: an update by an ID two rules share, the first of them in
\* the middle of the list, with a body of another ID
C24_Witness ==
    \E p \in 1..NCalls :
        /\ AtReturn(p, "update")
        /\ sp[p].rule.ID # sp[p].id
        /\ Len(Before) = 3
        /\ IsFirstWith(Before, sp[p].id, 2)
        /\ Before[3].ID = sp[p].id

\* C25: when AddProxyRule returns the list is the old one with the rule at
\* its end; when DeleteProxyRule(id) returns the first rule with the ID is
\* gone and the others stand in their old order; a list without the ID
\* is as before.
C25_AppendAndRemoveFirst ==
    \A p \in 1..NCalls :
        /\ AtReturn(p, "add") => rules = Before \o <<sp[p].rule>>
        /\ AtReturn(p, "delete") =>
              IF \E k \in 1..Len(Before) : Before[k].ID = sp[p].id
              THEN \E k \in 1..Len(Before) :
                      /\ IsFirstWith(Before, sp[p].id, k)
                      /\ Len(rules) = Len(Before) - 1
                      /\ \A j \in 1..Len(rules) :
                            rules[j] = IF j < k THEN Before[j] ELSE Before[j + 1]
              ELSE rules = Before

\* C25 witness: a delete by an ID two rules share, a different rule after
\* the first of them
C25_Witness ==
    \E p \in 1..NCalls :
        /\ AtReturn(p, "delete")
        /\ Len(Before) = 3
        /\ IsFirstWith(Before, sp[p].id, 1)
        /\ Before[2].ID # sp[p].id
        /\ Before[3].ID = sp[p].id

------------------------------------------------------------------------------
(* Claims about the cache of instances *)

\* C27: since the last RefreshProxies at most one instance has been made
\* for a rule ID, the cache holds it, and every call of getOrCreateProxy
\* for the ID that returned an instance returned that one.
C27_OneInstancePerID ==
    /\ \A x \in ledger.built, y \in ledger.built : x[1] = y[1] => x = y
    /\ \A x \in ledger.given : x[2] # 0 => x \in ledger.built
    /\ \A id \in DOMAIN pmProxies : <<id, pmProxies[id]>> \in ledger.built
    /\ \A p \in 1..NGet :
          goc[p].pc = "unlock" /\ goc[p].proxy # 0 =>
              <<goc[p].rule.ID, goc[p].proxy>> \in ledger.built

\* C27 witness: a second call for an ID, with another target in its
\* snapshot, is about to return the instance the first call made
C27_Witness ==
    \E p \in 1..NGet :
        /\ goc[p].pc = "unlock"
        /\ goc[p].proxy # 0
        /\ <<goc[p].rule.ID, goc[p].proxy>> \in ledger.given
        /\ goc[p].rule.TargetURL = TargetY
        /\ \E q \in 1..NGet : q # p /\ goc[q].pc = "idle"

------------------------------------------------------------------------------
(* Claims about the lists GetProxyRules returns *)

\* C26: a list GetProxyRules returned holds what the store held at that
\* time, changed only by its caller's own stores, whatever the methods of
\* the store have done since; and the store holds what its methods built,
\* whatever the callers have stored into their lists.
C26_IndependentSnapshot ==
    /\ Len(held) = Len(snaps)
    /\ \A n \in 1..Len(snaps) : SliceVal(heap, snaps[n]) = held[n]
    /\ SliceVal(heap, cfgSlice) = rules

\* C26 witness: after a list of two rules was returned its caller has
\* stored into it and a delete has moved the store's second rule down
C26_Witness ==
    /\ Len(snaps) = 1
    /\ Len(held[1]) = 2
    /\ held[1][1] = CallerRule
    /\ cfgSlice.len = 1
    /\ Cap(heap, cfgSlice) >= 2
    /\ rules = <<held[1][2]>>
    /\ heap[cfgSlice.arr][2] = held[1][2]

------------------------------------------------------------------------------
(* Claims about the two matching loops *)

\* C28: the rule ProxyManager.ServeHTTP selects at the shared endpoint has a
\* non-empty prefix, and it is the first rule of the list whose non-empty
\* prefix is a prefix of the path, the rule that made the "/" handler
\* choose the proxy.  (The code breaks this when a port-only rule precedes
\* the path rule: the router's loop stops at the empty prefix.)
C28_PortOnlyNeverSelected ==
    \A i \in 1..NReq :
        req[i].pc \in {"matched", "done"} /\ req[i].sel # ZeroRule =>
            /\ req[i].sel.PathPrefix # Empty
            /\ \E k \in 1..Len(rules) :
                  /\ req[i].sel = rules[k]
                  /\ HasPrefix(req[i].path, rules[k].PathPrefix)
                  /\ \A j \in 1..(k - 1) :
                        \/ rules[j].PathPrefix = Empty
                        \/ ~HasPrefix(req[i].path, rules[j].PathPrefix)

------------------------------------------------------------------------------
(* Claims about the stored rules *)

\* C29: every stored rule has an identifier and a target, a path prefix or
\* a port, and a path prefix that is empty or begins with "/".  (The code
\* breaks this: an import stores the rules of its document as they are.)
C29_StoredRulesWellFormed ==
    \A k \in 1..Len(rules) :
        /\ rules[k].ID # ""
        /\ rules[k].TargetURL # ""
        /\ rules[k].PathPrefix # Empty \/ rules[k].Port # 0
        /\ rules[k].PathPrefix = Empty \/ rules[k].PathPrefix[1] = "/"

------------------------------------------------------------------------------
(* Claims about a stream whose writes fail *)

\* C30: a connection whose write or flush has failed leaves its loop and
\* is removed from the registry in the end; and no step of a connection's
\* handler changes the broadcaster, another subscriber's channel or another
\* subscriber's registration.
C30_WriteFailureEndsOneStream ==
    /\ \A i \in 1..NStream :
          strm[i].werr ~> (strm[i].pc = "idle" /\ i \notin clients)
    /\ [][\A i \in 1..NStream : strm'[i] # strm[i] =>
            /\ bc' = bc
            /\ hubMu' = hubMu
            /\ \A j \in (1..NConn) \ {i} :
                  /\ queue'[j] = queue[j]
                  /\ j \in clients <=> j \in clients']_vars

\* C30 witness: a write has failed while the other subscriber has a message
\* waiting and a broadcast is under way, and the handler has left its loop
C30_Witness ==
    \E i \in 1..NStream :
        /\ strm[i].werr
        /\ strm[i].pc = "locking"
        /\ queue[Peer] # << >>
        /\ Peer \in clients
        /\ \E b \in 1..NCast : bc[b].pc = "range"

------------------------------------------------------------------------------
(* Claims about the watch set *)

\* C21: when the iteration for a created directory is over, that directory
\* and every directory under it are in the watch set; the watch set grows
\* only in such an iteration and only by directories under the created
\* one.  (The code breaks the first part when the walk meets an error: the
\* walk stops there and the loop goes on with what was added before.)
C21_CreatedSubtreeWatched ==
    [][/\ GrowEnd => Dirs(tree) \subseteq watchSet'
       /\ (watchSet' # watchSet /\ wpc'.pc # "ended") =>
            /\ wpc.pc = "walk"
            /\ watchSet \subseteq watchSet'
            /\ watchSet' \subseteq watchSet \cup Dirs(tree)]_vars

\* C22: a watcher error leaves the loop at its select; after a failed walk
\* the loop comes back to its select, where an event of a watched directory
\* can be received; and watchFiles ends only at its select, on a closed
\* channel.
C22_ErrorsDoNotEndTheLoop ==
    /\ [][/\ GrowError => (wpc' = wpc /\ wpc.pc = "select")
          /\ wpc.pc = "walkerr" => wpc'.pc \in {"walkerr", "select"}
          /\ (wpc.pc # "ended" /\ wpc'.pc = "ended") =>
                \E channel \in {"Events", "Errors"} : Closed(channel)
          /\ (wpc.pc = "select" /\ Received < MaxEvents) =>
                ENABLED GrowReceive(Event(NameA, {"Write"}, FALSE))]_vars
    /\ (wpc.pc = "walkerr") ~> (wpc.pc = "select")

\* C22 witness: the walk of a created directory has failed before the
\* directory was added, and the loop has received another event since
C22_Witness ==
    /\ wpc.pc = "select"
    /\ Len(closures) >= 2
    /\ closures[1].Name = NameDir
    /\ NameDir \notin watchSet
    /\ closures[2].Name = NameA

------------------------------------------------------------------------------
(* Claims about the path sent upstream *)

\* C34: a request forwarded by a rule whose prefix begins with "/" and
\* whose strip_prefix is set goes upstream with a path that begins with
\* "/", whatever is left of the request path after the prefix.
C34_UpstreamPathRooted ==
    \A i \in 1..NReq :
        (/\ req[i].pc = "done"
         /\ req[i].out = "forwarded"
         /\ req[i].sel.StripPrefix
         /\ HasPrefix(req[i].sel.PathPrefix, Root))
        => HasPrefix(req[i].up, Root)

\* C34 witness: /apiary has been forwarded by the stripping rule /api; the
\* handler left "ary" as the request's path and "/ary" went upstream
C34_Witness ==
    \E i \in 1..NReq :
        /\ req[i].pc = "done"
        /\ req[i].out = "forwarded"
        /\ req[i].sel.StripPrefix
        /\ req[i].sel.PathPrefix = PApi
        /\ req[i].path = PathApiary
        /\ req[i].fwd = <<"a", "r", "y">>
        /\ req[i].up = <<"/", "a", "r", "y">>

------------------------------------------------------------------------------
(* Claims about the route table *)

\* C35: every request the shared listener has answered whose path begins
\* with the non-empty prefix of a rule was forwarded by the proxy router,
\* whichever path it asked for and whichever prefix the rule has.
C35_EveryMatchForwarded ==
    \A i \in 1..NReq :
        (req[i].pc = "done" /\ RootMatches(rules, req[i].path))
        => req[i].out = "forwarded"

\* C35, the part that holds: the requests the mux gives to the "/" pattern
\* are forwarded when a rule's non-empty prefix matches.
C35_RootRequestsForwarded ==
    \A i \in 1..NReq :
        (/\ req[i].pc = "done"
         /\ ServeMux(req[i].path) = "root"
         /\ RootMatches(rules, req[i].path))
        => req[i].out = "forwarded"

------------------------------------------------------------------------------
(* Claims about the rule a port listener uses *)

\* The store's rule with the identifier of the rule the listener on the
\* port was started with, as a set: empty once that rule is deleted
CurrentOf(port) ==
    {rules[k] : k \in {j \in 1..Len(rules) : rules[j].ID = listeners[port].ID}}

\* C32: a request on a port is forwarded by the store's current version of
\* the listener's rule.  Whenever no admin handler is between its mutation
\* and RefreshProxies, a request on the port is forwarded to the target the
\* store holds for the rule, and an instance a port request stores in the
\* shared cache is built from a rule that is in the store.
C32_PortUsesCurrentRule ==
    [][\A port \in Ports, path \in ProxyPaths :
        ServePortProxy(port, path) =>
            /\ (pendingRefresh = 0 /\ portResp'.out = "forwarded") =>
                    \/ CurrentOf(port) = {}
                    \/ \E rule \in CurrentOf(port) :
                            portResp'.target = rule.TargetURL
            /\ proxies' # proxies => listeners[port] \in CurrentOf(port)]_vars

\* C32, the state the claim is about: the store holds another target for
\* the listener's rule than the listener was started with, the cache has
\* been cleared since, and a request on the port has been forwarded
C32_Reached ==
    /\ pendingRefresh = 0
    /\ portResp.out = "forwarded"
    /\ portResp.port \in DOMAIN listeners
    /\ CurrentOf(portResp.port) # {}
    /\ \A rule \in CurrentOf(portResp.port) :
            rule.TargetURL # listeners[portResp.port].TargetURL

------------------------------------------------------------------------------
(* Claims about the debounce timer *)

\* The messages that come from one event each: for an event the loop has
\* taken through its iteration, the last element of its path, a space and
\* the kind its own operation bits give
OfOneEvent ==
    {e.Name[Len(e.Name)] \o " " \o
        (IF "Create" \in e.Op THEN "created"
         ELSE IF "Remove" \in e.Op THEN "removed"
         ELSE IF "Rename" \in e.Op THEN "renamed"
         ELSE "modified") : e \in {closures[k] : k \in 1..Len(closures)}}

\* C36: at most one debounce timer is pending; no more calls of
\* BroadcastChange have been made than events have been processed; and
\* every message handed to BroadcastChange, and every message a broadcast
\* is delivering, is that of one processed event, name and kind together.
C36_TimerAndMessages ==
    /\ Cardinality(armed) <= 1
    /\ Len(issued) <= Len(closures)
    /\ \A k \in 1..Len(issued) : issued[k] \in OfOneEvent
    /\ \A b \in 1..NCast : bc[b].pc # "idle" => bc[b].msg \in OfOneEvent

\* C36 witness: three events on two files with different kinds, the first
\* two followed by quiet long enough for their timers to fire: two
\* different messages have been broadcast and the third timer is pending
C36_Witness ==
    /\ Len(closures) = 3
    /\ \E j, k \in 1..3 : /\ closures[j].Name # closures[k].Name
                          /\ closures[j].Op # closures[k].Op
    /\ Len(issued) = 2
    /\ issued[1] # issued[2]
    /\ armed = {3}
    /\ fired = {}

------------------------------------------------------------------------------
(* Claims about broadcasts and the registry *)

\* C31: a broadcast works on the registry as it stood at one instant.  The
\* channels a call of BroadcastChange has still to try are registered; while
\* the call is in its range the registry does not change, so a subscriber
\* that registers or deregisters meanwhile does so wholly before or wholly
\* after the call; the call begins with the whole registry before it; and a
\* message is put only on the channel of a registered subscriber, never on
\* one whose deregistration is complete.
C31_BroadcastAtomic ==
    /\ [](\A b \in 1..NCast : bc[b].pc = "range" => bc[b].todo \subseteq clients)
    /\ [][/\ \A b \in 1..NCast :
                /\ (bc[b].pc = "range" /\ bc'[b].pc = "range") => clients' = clients
                /\ (bc[b].pc = "idle" /\ bc'[b].pc = "range") =>
                        bc'[b].todo = clients /\ clients' = clients
          /\ \A c \in 1..NStream :
                Len(queue'[c]) > Len(queue[c]) => c \in clients /\ c \in clients'
         ]_vars

\* C31 witness: a broadcast has put its message on a subscriber's channel
\* and has not returned, while that subscriber's deferred removal waits for
\* the lock
C31_Witness ==
    \E b \in 1..NCast, c \in 1..NStream :
        /\ bc[b].pc = "range"
        /\ c \notin bc[b].todo
        /\ c \in clients
        /\ strm[c].pc = "locking"
        /\ bc[b].msg \in {enq[c][k] : k \in 1..Len(enq[c])}

------------------------------------------------------------------------------
(* Claims about the serving directory *)

\* C33: while the watcher is in its loop, the root of the watched tree is
\* the directory the store holds as the serving directory, and every file
\* request served meanwhile is served from the watcher's root.
C33_WatchRootIsServingDir ==
    /\ [](wpc.pc = "select" => watchRoot = fileServerDir)
    /\ [][(wpc.pc = "select" /\ servedFrom' # servedFrom) =>
                servedFrom' = watchRoot]_vars

\* C33, the state the claim is about: the watcher is in its loop over the
\* tree of the directory the process started in, the store holds another
\* directory and a file has been served from that one
C33_Reached ==
    /\ wpc.pc = "select"
    /\ watchRoot = ServingDir
    /\ fileServerDir = <<"tmp">>
    /\ servedFrom = <<"tmp">>

====
